---- MODULE Spec2Model ----
(***************************************************************************)
(* Reconciliation core of the SCHLabor / SCHSchedulingSummary sync service *)
(* (report_update_service.py): the canonicalizer, the summary upsert, the  *)
(* labor ingest, the overlapping backfill driver and the run/change log.   *)
(***************************************************************************)
EXTENDS Integers, Sequences, FiniteSets, TLC

(***************************************************************************)
(* Scalars.  A Python string is a sequence of one-character strings.  A    *)
(* value is None, a str, or a float (what sqlite3 hands back from a REAL   *)
(* column); a float is held exactly, as an integer count of 10^-7.         *)
(***************************************************************************)
Scale == 10 ^ 7

PyNone == [t |-> "null", s |-> <<>>, n |-> 0]

Str(s) == [t |-> "str", s |-> s, n |-> 0]

Real(n) == [t |-> "real", s |-> <<>>, n |-> n]

Digits == {"0", "1", "2", "3", "4", "5", "6", "7", "8", "9"}

Letters == {"a", "b", "c", "e", "x", "y", "z", "A", "B", "N"}

DigitVal(c) ==
    CASE c = "0" -> 0 [] c = "1" -> 1 [] c = "2" -> 2 [] c = "3" -> 3
      [] c = "4" -> 4 [] c = "5" -> 5 [] c = "6" -> 6 [] c = "7" -> 7
      [] c = "8" -> 8 [] c = "9" -> 9

DigitChar(d) ==
    CASE d = 0 -> "0" [] d = 1 -> "1" [] d = 2 -> "2" [] d = 3 -> "3"
      [] d = 4 -> "4" [] d = 5 -> "5" [] d = 6 -> "6" [] d = 7 -> "7"
      [] d = 8 -> "8" [] d = 9 -> "9"

Abs(n) == IF n < 0 THEN -n ELSE n

RECURSIVE LStrip(_, _)
LStrip(s, cs) ==
    IF s # <<>> /\ Head(s) \in cs THEN LStrip(Tail(s), cs) ELSE s

RECURSIVE RStrip(_, _)
RStrip(s, cs) ==
    IF s # <<>> /\ s[Len(s)] \in cs THEN RStrip(SubSeq(s, 1, Len(s) - 1), cs) ELSE s

\* str.strip(): whitespace off both ends
Strip(s) == RStrip(LStrip(s, {" "}), {" "})

\* any(c.isalpha() for c in s)
HasAlpha(s) == \E i \in 1..Len(s) : s[i] \in Letters

AllDigits(s) == \A i \in 1..Len(s) : s[i] \in Digits

RECURSIVE DigitsToInt(_)
DigitsToInt(s) ==
    IF s = <<>> THEN 0 ELSE DigitsToInt(SubSeq(s, 1, Len(s) - 1)) * 10 + DigitVal(s[Len(s)])

RECURSIVE IntToDigits(_)
IntToDigits(k) ==
    IF k < 10 THEN <<DigitChar(k)>> ELSE IntToDigits(k \div 10) \o <<DigitChar(k % 10)>>

\* str(int)
IntStr(k) == IF k < 0 THEN <<"-">> \o IntToDigits(-k) ELSE IntToDigits(k)

\* the fraction digits d1 d2 ... as a count of 10^-7 (digits past the 7th are
\* below the held precision; no modelled input has them)
RECURSIVE FracUnits(_, _)
FracUnits(s, w) ==
    IF s = <<>> \/ w = 0 THEN 0 ELSE DigitVal(Head(s)) * w + FracUnits(Tail(s), w \div 10)

IndexOf(s, c) ==
    IF \E i \in 1..Len(s) : s[i] = c
    THEN CHOOSE i \in 1..Len(s) : s[i] = c /\ \A j \in 1..(i - 1) : s[j] # c
    ELSE 0

\* s cut at position i (the character at i dropped); i = 0: nothing after
SplitAt(s, i) ==
    IF i = 0 THEN <<s, <<>>>> ELSE <<SubSeq(s, 1, i - 1), SubSeq(s, i + 1, Len(s))>>

UDecimalOkParts(p) == AllDigits(p[1]) /\ AllDigits(p[2]) /\ Len(p[1]) + Len(p[2]) > 0

\* an unsigned decimal "ddd", "ddd.", ".ddd" or "ddd.ddd"
UDecimalOk(s) == UDecimalOkParts(SplitAt(s, IndexOf(s, ".")))

UDecimalUnitsParts(p) == DigitsToInt(p[1]) * Scale + FracUnits(p[2], Scale \div 10)

UDecimalUnits(s) == UDecimalUnitsParts(SplitAt(s, IndexOf(s, ".")))

Signed(s) == s # <<>> /\ Head(s) \in {"+", "-"}

Unsigned(s) == IF Signed(s) THEN Tail(s) ELSE s

SignOf(s) == IF s # <<>> /\ Head(s) = "-" THEN -1 ELSE 1

PyFloatParts(sg, u) ==
    IF UDecimalOk(u) THEN [ok |-> TRUE, n |-> sg * UDecimalUnits(u)]
    ELSE [ok |-> FALSE, n |-> 0]

PyFloatStripped(t) == PyFloatParts(SignOf(t), Unsigned(t))

\* float(s) for a string without letters: [ok, n]; not ok is ValueError
PyFloat(s) == PyFloatStripped(Strip(s))

RECURSIVE ZeroPad(_, _)
ZeroPad(s, w) == IF Len(s) >= w THEN s ELSE ZeroPad(<<"0">> \o s, w)

Mantissa(m) == <<Head(m)>> \o (IF Len(m) > 1 THEN <<".">> \o Tail(m) ELSE <<>>)

ExpForm(digs) ==
    Mantissa(RStrip(digs, {"0"})) \o <<"e", "-">> \o ZeroPad(IntToDigits(7 - (Len(digs) - 1)), 2)

FracDigits(fp) == IF fp = <<>> THEN <<"0">> ELSE fp

FloatReprAbs(sg, a) ==
    IF a < Scale \div 10000
    THEN sg \o ExpForm(IntToDigits(a))
    ELSE sg \o IntToDigits(a \div Scale) \o <<".">>
            \o FracDigits(RStrip(ZeroPad(IntToDigits(a % Scale), 7), {"0"}))

\* repr(float): the shortest decimal; below 1e-4 Python switches to the
\* exponent form (1e-05), which contains the letter e
FloatRepr(n) ==
    IF n = 0 THEN <<"0", ".", "0">>
    ELSE FloatReprAbs(IF n < 0 THEN <<"-">> ELSE <<>>, Abs(n))

\* str(val)
PyStr(v) == IF v.t = "real" THEN FloatRepr(v.n) ELSE v.s

RoundHalfEven(q, d7) == IF d7 > 5 \/ (d7 = 5 /\ q % 2 = 1) THEN q + 1 ELSE q

Fmt6Micro(sg, r) ==
    sg \o IntToDigits(r \div (Scale \div 10)) \o <<".">>
       \o ZeroPad(IntToDigits(r % (Scale \div 10)), 6)

Fmt6Abs(sg, a) == Fmt6Micro(sg, RoundHalfEven(a \div 10, a % 10))

\* '{0:.6f}'.format(f): six decimals, the seventh rounded away (a seventh
\* digit of exactly 5 is decided by the binary expansion in Python; it is
\* rounded to even here and no modelled input has one)
Fmt6(n) == Fmt6Abs(IF n < 0 THEN <<"-">> ELSE <<>>, Abs(n))

\* lines 203-209: float(s), then the integer or the fixed-precision form
CanonicalNum(s, f) ==
    IF ~f.ok THEN s
    ELSE IF f.n % Scale = 0 THEN IntStr(f.n \div Scale)
    ELSE RStrip(RStrip(Fmt6(f.n), {"0"}), {"."})

\* lines 196-202: the stripped text
CanonicalStr(s) ==
    IF s = <<>> THEN <<>>
    ELSE IF HasAlpha(s) THEN s
    ELSE CanonicalNum(s, PyFloat(s))

\* _canonical(val)
Canonical(v) == IF v.t = "null" THEN <<>> ELSE CanonicalStr(Strip(PyStr(v)))

(***************************************************************************)
(* SQLite storage classes.  A column declared REAL converts a text value   *)
(* that is a well-formed number (spaces around it, a sign, an exponent     *)
(* allowed) to a float; TEXT keeps a string as it is; NULL stays NULL.     *)
(* INTEGER PRIMARY KEY accepts only a value that converts to an integer.   *)
(***************************************************************************)
Pow10(k) == 10 ^ k

Scaled(m, esg, k) == IF esg = 1 THEN m * Pow10(k) ELSE m \div Pow10(k)

SqlNumericParts(sg, p, noExp) ==
    IF UDecimalOk(p[1]) /\ (noExp \/ (Unsigned(p[2]) # <<>> /\ AllDigits(Unsigned(p[2]))))
    THEN [ok |-> TRUE,
          n |-> sg * Scaled(UDecimalUnits(p[1]), SignOf(p[2]), DigitsToInt(Unsigned(p[2])))]
    ELSE [ok |-> FALSE, n |-> 0]

SqlNumericUnsigned(sg, u) == SqlNumericParts(sg, SplitAt(u, IndexOf(u, "e")), IndexOf(u, "e") = 0)

SqlNumericStripped(t) == SqlNumericUnsigned(SignOf(t), Unsigned(t))

\* text -> number the way SQLite's numeric affinity reads it: [ok, n]
SqlNumeric(s) == SqlNumericStripped(Strip(s))

\* the declared type ensure_sched_table gives a new column
ColType(c) ==
    IF c = "comnumber1" THEN "INTEGER PRIMARY KEY"
    ELSE IF c \in {"stdhrs", "acthrs"} \/ c \in {"height", "sqft", "code"} THEN "REAL"
    ELSE "TEXT"

StoreNumeric(v, num) == IF num.ok THEN Real(num.n) ELSE v

\* the value a column of the given type holds after v was written to it
StoreAs(type, v) ==
    IF type = "REAL" /\ v.t = "str" THEN StoreNumeric(v, SqlNumeric(v.s)) ELSE v

KeyOfNumeric(num) ==
    IF num.ok /\ num.n % Scale = 0 THEN [ok |-> TRUE, k |-> num.n \div Scale]
    ELSE [ok |-> FALSE, k |-> 0]

\* the rowid an INTEGER PRIMARY KEY value denotes: [ok, k]; not ok is
\* "datatype mismatch" on INSERT and no match in a WHERE comparison
KeyOf(v) == IF v.t = "str" THEN KeyOfNumeric(SqlNumeric(v.s)) ELSE [ok |-> FALSE, k |-> 0]

(***************************************************************************)
(* The summary table and upsert_sched_rows_with_stats.                     *)
(* A batch is a sequence of records with the columns of rows[0]; the table *)
(* is a function from the rowid (comnumber1 is INTEGER PRIMARY KEY) to the *)
(* stored attribute values.                                                *)
(***************************************************************************)
Columns == <<"comnumber1", "jobname", "stdhrs">>

NotKey(c) == c # "comnumber1"

\* update_cols = [c for c in columns if c != 'comnumber1']
UpdateCols == SelectSeq(Columns, NotKey)

EmptyTbl == [k \in {} |-> 0]

Inserted == Str(<<"I", "N", "S", "E", "R", "T", "E", "D">>)

\* the row an INSERT of record r stores
InsertedRow(r) == [c \in {"jobname", "stdhrs"} |-> StoreAs(ColType(c), r[c])]

RowChanges_literal(before, r) ==
    LET Differs(c) == before[c] # r[c]
    IN  SelectSeq(UpdateCols, Differs)

\* row_changes: the columns whose canonical value differs, in column order
RowChanges(before, r) ==
    LET Differs(c) == Canonical(before[c]) # Canonical(r[c])
    IN  SelectSeq(UpdateCols, Differs)

\* the row after UPDATE ... SET cols = r[cols]
UpdatedRow(before, r, cols) ==
    [c \in {"jobname", "stdhrs"} |->
        IF \E i \in 1..Len(cols) : cols[i] = c THEN StoreAs(ColType(c), r[c]) ELSE before[c]]

ChangeEntries(key, before, r, cols) ==
    [i \in 1..Len(cols) |->
        [comnumber1 |-> key, column |-> cols[i], old |-> before[cols[i]], new |-> r[cols[i]]]]

NewEntry(key) == [comnumber1 |-> key, column |-> "*NEW*", old |-> PyNone, new |-> Inserted]

WrittenCols_all(mode, changes) == UpdateCols

\* the columns the UPDATE statement of an existing row sets: the differing
\* ones in diff mode, all of them in bulk mode, none when diff mode skips
WrittenCols(mode, changes) == IF mode = "bulk" THEN UpdateCols ELSE changes

Acc0(tbl) ==
    [base |-> tbl, tbl |-> tbl, change_records |-> <<>>, new_rows |-> 0, updated_rows |-> 0,
     skipped_rows |-> 0, changed_columns |-> 0, err |-> "", began |-> FALSE, log |-> <<>>]

Lookup_committed(acc, k) == IF k \in DOMAIN acc.base THEN <<acc.base[k]>> ELSE <<>>

\* cur.execute(select_sql, (key,)); cur.fetchone(): the cursor of the loop's
\* own connection, which sees the rows this batch has written so far
Lookup(acc, k) == IF k \in DOMAIN acc.tbl THEN <<acc.tbl[k]>> ELSE <<>>

WriteRow_always(acc, k, before, changes, cols, after, entries) ==
    [acc EXCEPT
        !.tbl = [acc.tbl EXCEPT ![k] = after],
        !.change_records = @ \o entries,
        !.updated_rows = @ + 1,
        !.changed_columns = @ + Len(changes),
        !.began = TRUE,
        !.log = Append(@, [op |-> "UPDATE", k |-> k, cols |-> cols,
                           before |-> before, after |-> after, entries |-> entries])]

\* lines 264-272 (diff) and 250-258 (bulk): the UPDATE, then the counters
\* and the change records
WriteRow(acc, k, before, changes, cols, after, entries) ==
    [acc EXCEPT
        !.tbl = [acc.tbl EXCEPT ![k] = after],
        !.change_records = @ \o entries,
        !.updated_rows = IF changes # <<>> THEN @ + 1 ELSE @,
        !.skipped_rows = IF changes = <<>> THEN @ + 1 ELSE @,
        !.changed_columns = @ + Len(changes),
        !.began = TRUE,
        !.log = Append(@, [op |-> "UPDATE", k |-> k, cols |-> cols,
                           before |-> before, after |-> after, entries |-> entries])]

\* an unchanged row passed over without being counted
ApplyUpdate_uncounted(acc, r, locked, k, before, changes, cols) ==
    IF cols = <<>>
    THEN [acc EXCEPT
            !.log = Append(@, [op |-> "SKIP", k |-> k, cols |-> <<>>,
                               before |-> before, after |-> before, entries |-> <<>>])]
    ELSE IF locked THEN [acc EXCEPT !.err = "database is locked"]
    ELSE WriteRow(acc, k, before, changes, cols, UpdatedRow(before, r, cols),
                  ChangeEntries(r.comnumber1, before, r, changes))

\* lines 248-272: an existing row; locked: another connection holds the
\* write lock, so the UPDATE raises "database is locked"
ApplyUpdate(acc, r, locked, k, before, changes, cols) ==
    IF cols = <<>>
    THEN [acc EXCEPT
            !.skipped_rows = @ + 1,
            !.log = Append(@, [op |-> "SKIP", k |-> k, cols |-> <<>>,
                               before |-> before, after |-> before, entries |-> <<>>])]
    ELSE IF locked THEN [acc EXCEPT !.err = "database is locked"]
    ELSE WriteRow(acc, k, before, changes, cols, UpdatedRow(before, r, cols),
                  ChangeEntries(r.comnumber1, before, r, changes))

ExistingRow(acc, r, mode, locked, k, before, changes) ==
    ApplyUpdate(acc, r, locked, k, before, changes, WrittenCols(mode, changes))

InsertRow_uncounted(acc, k, row, entry) ==
    [acc EXCEPT
        !.tbl = [x \in DOMAIN acc.tbl \cup {k} |-> IF x = k THEN row ELSE acc.tbl[x]],
        !.change_records = Append(@, entry),
        !.began = TRUE,
        !.log = Append(@, [op |-> "INSERT", k |-> k, cols |-> Columns,
                           before |-> row, after |-> row, entries |-> <<entry>>])]

\* lines 233-237: the INSERT of a new row
InsertRow(acc, k, row, entry) ==
    [acc EXCEPT
        !.tbl = [x \in DOMAIN acc.tbl \cup {k} |-> IF x = k THEN row ELSE acc.tbl[x]],
        !.change_records = Append(@, entry),
        !.new_rows = @ + 1,
        !.began = TRUE,
        !.log = Append(@, [op |-> "INSERT", k |-> k, cols |-> Columns,
                           before |-> row, after |-> row, entries |-> <<entry>>])]

\* lines 229-231: before = cur.fetchone(); if not before: ...
RowStepFound(acc, r, mode, locked, k, hit) ==
    IF hit = <<>>
    THEN IF locked THEN [acc EXCEPT !.err = "database is locked"]
         ELSE InsertRow(acc, k, InsertedRow(r), NewEntry(r.comnumber1))
    ELSE ExistingRow(acc, r, mode, locked, k, hit[1], RowChanges(hit[1], r))

\* a key that is no integer matches no row, and its INSERT is rejected with
\* "datatype mismatch" after the statement has opened the transaction
RowStepKey(acc, r, mode, locked, kk) ==
    IF ~kk.ok
    THEN IF locked THEN [acc EXCEPT !.err = "database is locked"]
         ELSE [acc EXCEPT !.err = "datatype mismatch", !.began = TRUE]
    ELSE RowStepFound(acc, r, mode, locked, kk.k, Lookup(acc, kk.k))

\* one pass of the loop "for r in rows" on the connection's view acc.tbl
RowStep_skip(acc, r, mode, locked) ==
    IF "comnumber1" \notin DOMAIN r THEN [acc EXCEPT !.skipped_rows = @ + 1]
    ELSE RowStepKey(acc, r, mode, locked, KeyOf(r.comnumber1))

\* line 228: key = r['comnumber1'] raises KeyError before any statement runs
RowStep(acc, r, mode, locked) ==
    IF "comnumber1" \notin DOMAIN r THEN [acc EXCEPT !.err = "KeyError"]
    ELSE RowStepKey(acc, r, mode, locked, KeyOf(r.comnumber1))

\* the whole loop: records in input order, stopping at the first exception
RECURSIVE UpsertLoop(_, _, _, _)
UpsertLoop(acc, rows, mode, locked) ==
    IF rows = <<>> \/ acc.err # "" THEN acc
    ELSE UpsertLoop(RowStep(acc, Head(rows), mode, locked), Tail(rows), mode, locked)

(***************************************************************************)
(* State.                                                                  *)
(***************************************************************************)
VARIABLES
    sched,          \* committed rows of SCHSchedulingSummary: rowid -> attributes
    schedExists,    \* the table has been created
    keyless,        \* the table was created from a batch without comnumber1
    xcols,          \* the columns of the table beside comnumber1, jobname, stdhrs
    mode,           \* SCHSUMMARY_UPDATE_MODE: "diff" or "bulk"
    txn,            \* the connection a failed upsert left behind: its open
                    \* transaction holds the write lock until it is collected
    legacy,         \* a SCHSchedulingSummary that was created elsewhere, with
                    \* no key constraint on comnumber1: rows in rowid order
    batch,          \* the batch of the latest reconciliation call
    res,            \* what that call computed (counters, change records, statements)
    pre,            \* the committed table when that call's loop began
    prev,           \* the result of the call before it
    calls,          \* number of reconciliation calls made
    labor,          \* rows of SCHLabor in rowid order
    idxRow,         \* the unique index UX_SCHLabor_Row (5 columns) exists
    idxFull,        \* the unique index UX_SCHLabor_FullRow (8 columns) exists
    allow,          \* ALLOW_SCHLABOR_SCHEMA_MUTATIONS
    lfile,          \* the labor file of the latest ingest
    lret,           \* what _import_labor_csv returned for it
    lpre,           \* SCHLabor before the latest ingest
    lfirst,         \* SCHLabor after the first ingest of lfile
    ingests,        \* number of ingests of lfile
    lhist,          \* the ingests made so far: file and returned count
    runLog,         \* rows of RunLog; the id of a row is its position
    changeLog,      \* rows of ChangeLog in insertion order
    invocations,    \* one entry per call of the reconciliation engine made by a driver
    cleaned,        \* the file cleaned_file.csv
    bf,             \* position and result of backfill_sched_summary_overlapping
    ret,            \* how the latest run-recording function ended
    lb,             \* the runs of labor_backfill over the daily files
    stop_event,     \* the threading.Event a driver was given: it is set
    drv,            \* a driver running step by step: its position, what it
                    \* emitted and what it returned
    plan,           \* the windows backfill_sched_summary_overlapping walks
    canon           \* a value given to _canonical, and what came back
                    \* over a range of dates

schedVars == <<sched, schedExists, keyless, xcols, mode, txn, legacy>>
callVars == <<batch, res, pre, prev, calls>>
laborVars == <<labor, idxRow, idxFull, allow, lfile, lret, lpre, lfirst, ingests, lhist>>
runVars == <<runLog, changeLog, invocations, cleaned, bf, ret, lb, stop_event, drv, plan, canon>>

MaxBatch == 2
MaxRepeats == 1

\* the cleaner keeps the records whose comnumber1 starts with 1 or 2
KeyVals == {Str(<<"1">>), Str(<<"2">>), Str(<<"1", "x">>)}
NameVals == {Str(<<"5">>), Str(<<"5", ".", "0">>), Str(<<"x">>)}
HrsVals == {Str(<<"5">>), Str(<<"0", ".", "0", "0", "0", "0", "1">>)}

\* the records batches are drawn from: every value combination for key "1",
\* one job name for the other keys
Records ==
    {r \in [comnumber1 : KeyVals, jobname : NameVals, stdhrs : HrsVals] :
        r.comnumber1 = Str(<<"1">>) \/ r.jobname = Str(<<"x">>)}

Batches == UNION {[1..n -> Records] : n \in 0..MaxBatch}

NoTxn == [open |-> FALSE, tbl |-> EmptyTbl]

\* no such table
NoLegacy ==
    [rows |-> <<>>, unique |-> FALSE, ensured |-> FALSE, raised |-> "", calls |-> 0,
     seed |-> <<>>, written |-> {}]

\* tables a store can hold before the observed call: empty, or left by one
\* earlier insert
SeedRecords == {r \in Records : r.comnumber1 = Str(<<"1">>) /\ r.stdhrs = Str(<<"5">>)}

SeedTables ==
    {EmptyTbl} \cup {UpsertLoop(Acc0(EmptyTbl), <<r>>, "diff", FALSE).tbl : r \in SeedRecords}

Committed_partial(acc, tbl) == acc.tbl

\* conn.commit() is reached only when the loop ran to its end; an exception
\* leaves the loop's writes uncommitted on the abandoned connection
Committed(acc, tbl) == IF acc.err = "" THEN acc.tbl ELSE tbl

\* lines 112-124: a table that does not exist is created, and committed,
\* with the columns of the batch's first record
EnsuredKeyless(b) == IF schedExists THEN keyless ELSE "comnumber1" \notin DOMAIN b[1]

\* the characters of the column names a batch can carry
Spelling(c) ==
    CASE c = "ab" -> <<"a", "b">>
      [] c = "a_1" -> <<"a", "_", "1">>
      [] c = "a b" -> <<"a", " ", "b">>
      [] c = "a\"b" -> <<"a", "\"", "b">>
      [] c = "1a" -> <<"1", "a">>
      [] c = "a;" -> <<"a", ";">>
      [] c = "" -> <<>>

RECURSIVE Doubled(_)
Doubled(s) ==
    IF s = <<>> THEN <<>>
    ELSE (IF Head(s) = "\"" THEN <<"\"", "\"">> ELSE <<Head(s)>>) \o Doubled(Tail(s))

\* _qi, lines 26-29: every double quote doubled, the whole in double quotes
Qi(s) == <<"\"">> \o Doubled(s) \o <<"\"">>

RECURSIVE Undoubled(_)
Undoubled(s) ==
    IF s = <<>> THEN <<>>
    ELSE IF Len(s) >= 2 /\ s[1] = "\"" /\ s[2] = "\"" THEN <<"\"">> \o Undoubled(Tail(Tail(s)))
    ELSE <<Head(s)>> \o Undoubled(Tail(s))

\* the column name SQLite reads from a quoted identifier
SqlIdent(q) == Undoubled(SubSeq(q, 2, Len(q) - 1))

\* the columns of a batch beside the three modelled ones
ExtraCols(b) == DOMAIN b[1] \ {Columns[i] : i \in DOMAIN Columns}

\* lines 112-131: CREATE TABLE or ALTER TABLE ADD COLUMN with _qi(c) for
\* each column of the batch's first record
EnsuredCols(b) == xcols \cup {SqlIdent(Qi(Spelling(c))) : c \in ExtraCols(b)}

\* lines 211-273 once the table exists: the loop, then the commit
UpsertDone(acc, locked) ==
    /\ schedExists' = TRUE
    /\ pre' = sched
    /\ res' = acc
    /\ sched' = Committed(acc, sched)
    /\ txn' = IF acc.err # "" /\ acc.began /\ ~locked
              THEN [open |-> TRUE, tbl |-> acc.tbl]
              ELSE txn
    /\ UNCHANGED <<mode, legacy>>

\* upsert_sched_rows_with_stats(b) as one step of the store
Upsert(b) ==
    IF b = <<>>
    THEN /\ res' = Acc0(sched)
         /\ pre' = sched
         /\ UNCHANGED schedVars
    ELSE IF ~schedExists /\ txn.open
    THEN \* ensure_sched_table cannot create the table
         /\ res' = [Acc0(sched) EXCEPT !.err = "database is locked"]
         /\ pre' = sched
         /\ UNCHANGED schedVars
    ELSE /\ UpsertDone(UpsertLoop(Acc0(sched), b, mode, txn.open), txn.open)
         /\ keyless' = EnsuredKeyless(b)
         /\ xcols' = EnsuredCols(b)

Reconcile(b) ==
    /\ calls = 0
    /\ batch' = b
    /\ prev' = res
    /\ calls' = 1
    /\ Upsert(b)
    /\ UNCHANGED laborVars
    /\ UNCHANGED runVars

ReconcileAgain ==
    /\ calls \in 1..MaxRepeats
    /\ batch' = batch
    /\ prev' = res
    /\ calls' = calls + 1
    /\ Upsert(batch)
    /\ UNCHANGED laborVars
    /\ UNCHANGED runVars

\* the abandoned connection is garbage-collected: closing it rolls its
\* transaction back and releases the lock
ConnReclaimed ==
    /\ txn.open
    /\ txn' = NoTxn
    /\ UNCHANGED <<sched, schedExists, keyless, xcols, mode, legacy>>
    /\ UNCHANGED <<callVars, laborVars>>
    /\ UNCHANGED runVars

vars == <<schedVars, callVars, laborVars, runVars>>

NoFile == [exists |-> FALSE, rows |-> <<>>]

BfIdle ==
    [pc |-> "idle", n |-> 0, k |-> 0, ok |-> FALSE, chunks |-> 0, chunks_completed |-> 0,
     steps |-> <<>>, wins |-> <<>>]

NoRet == [run_id |-> 0, status |-> "none"]

LbIdle == [src |-> <<>>, runs |-> 0, hist |-> <<>>]

NoStats == [new_rows |-> 0, updated_rows |-> 0, total_changes |-> 0]

NoResult == [ok |-> FALSE, keys |-> {}, count |-> 0, stats |-> NoStats]

CanonIdle == [pc |-> "idle", x |-> PyNone, once |-> <<>>, twice |-> <<>>]

NoDate == [y |-> 0, m |-> 0, d |-> 0]

PlanIdle ==
    [pc |-> "idle", start |-> NoDate, end |-> NoDate, given |-> <<0, 0>>, primary_months |-> 0,
     overlap_months |-> 0, stride_months |-> 0, cur_start |-> NoDate, chunks |-> <<>>]

DrvIdle ==
    [fn |-> "none", pc |-> "idle", n |-> 0, first |-> 1, index |-> 0, chunks |-> 0,
     inserted |-> 0, run_id |-> 0, src |-> <<>>, log |-> <<>>, events |-> <<>>,
     sets |-> <<>>, result |-> NoResult,
     total_new |-> 0, total_updates |-> 0, total_changes |-> 0,
     engine |-> <<>>]

\* no driver has run
RunsIdle ==
    /\ runLog = <<>>
    /\ changeLog = <<>>
    /\ invocations = <<>>
    /\ cleaned = NoFile
    /\ bf = BfIdle
    /\ ret = NoRet
    /\ lb = LbIdle
    /\ stop_event = FALSE
    /\ drv = DrvIdle
    /\ plan = PlanIdle
    /\ canon = CanonIdle

\* the labor side at rest
LaborIdle ==
    /\ labor = <<>>
    /\ idxRow = FALSE
    /\ idxFull = FALSE
    /\ allow = FALSE
    /\ lfile = <<>>
    /\ lret = 0
    /\ lpre = <<>>
    /\ lfirst = <<>>
    /\ ingests = 0
    /\ lhist = <<>>

InitUpsert ==
    /\ sched \in SeedTables
    /\ schedExists \in (IF sched = EmptyTbl THEN BOOLEAN ELSE {TRUE})
    /\ mode \in {"diff", "bulk"}
    /\ txn = NoTxn
    /\ legacy = NoLegacy
    /\ keyless = FALSE
    /\ xcols = {}
    /\ batch = <<>>
    /\ res = Acc0(EmptyTbl)
    /\ pre = EmptyTbl
    /\ prev = Acc0(EmptyTbl)
    /\ calls = 0
    /\ LaborIdle
    /\ RunsIdle

NextUpsert ==
    \/ \E b \in Batches : Reconcile(b)
    \/ ReconcileAgain
    \/ ConnReclaimed

SpecUpsert == InitUpsert /\ [][NextUpsert]_vars

(***************************************************************************)
(* The labor event table and _import_labor_csv.  A file record carries     *)
(* LoggedDate, EmployeeNumber and ActualHours as the CSV text; COMNumber,  *)
(* EmployeeName, DepartmentNumber, Area and Reference hold the same        *)
(* non-empty text in every modelled record and are left out of the rows.   *)
(***************************************************************************)
MaxFile == 2
MaxIngests == 2

SqlInt(k) == [t |-> "int", s |-> <<>>, n |-> k]

DateVals == {"2024-01-01"}
EmpVals == {Str(<<"7">>), Str(<<"0", "0", "7">>)}
LaborHrsVals == {Str(<<"1">>), Str(<<"2">>), Str(<<>>)}

\* the raw dates strptime accepts, with '%Y-%m-%d' or '%m/%d/%Y', and the
\* ISO text strftime gives back
IsoDate ==
    [d \in {"2024-01-01", "2024-01-02", "2024-01-03", "01/01/2024"} |->
        IF d = "01/01/2024" THEN "2024-01-01" ELSE d]

\* iso if iso else raw_date[:10]
DateText(d) == IF d \in DOMAIN IsoDate THEN IsoDate[d] ELSE d

\* a data line; fits: it splits into as many fields as the header has
LaborRecords ==
    [LoggedDate : DateVals, EmployeeNumber : EmpVals, ActualHours : LaborHrsVals, fits : {TRUE}]

LaborFiles == UNION {[1..n -> LaborRecords] : n \in 0..MaxFile}

\* (row.get(col) or '').strip() or None
StripOrNone(v) == IF Strip(v.s) = <<>> THEN PyNone ELSE Str(Strip(v.s))

HoursOf(f) == IF f.ok THEN Real(f.n) ELSE PyNone

\* float(row.get('ActualHours')) unless it is '' ; ValueError gives None
HoursVal(v) == IF v.s = <<>> THEN PyNone ELSE HoursOf(PyFloat(v.s))

\* vals: the values bound to the INSERT ... WHERE NOT EXISTS statement
LaborVals(r) ==
    [LoggedDate |-> DateText(r.LoggedDate),
     EmployeeNumber |-> StripOrNone(r.EmployeeNumber),
     ActualHours |-> HoursVal(r.ActualHours)]

IntAffinityNumeric(v, num) ==
    IF num.ok /\ num.n % Scale = 0 THEN SqlInt(num.n \div Scale)
    ELSE IF num.ok THEN Real(num.n)
    ELSE v

\* what a column declared INTEGER holds after v was written to it
IntAffinity(v) == IF v.t = "str" THEN IntAffinityNumeric(v, SqlNumeric(v.s)) ELSE v

\* the row the INSERT stores (EmployeeNumber INTEGER, ActualHours REAL)
StoredLabor(vals) ==
    [LoggedDate |-> vals.LoggedDate,
     EmployeeNumber |-> IntAffinity(vals.EmployeeNumber),
     ActualHours |-> vals.ActualHours]

\* IFNULL(TRIM(x), ''): TRIM renders a number as text
TrimText(v) ==
    IF v.t = "null" THEN <<>>
    ELSE IF v.t = "int" THEN IntStr(v.n)
    ELSE IF v.t = "real" THEN FloatRepr(v.n)
    ELSE Strip(v.s)

\* (ActualHours IS NULL AND ? IS NULL) OR (ActualHours = ?)
HoursMatch(stored, h) ==
    \/ stored.t = "null" /\ h.t = "null"
    \/ stored.t # "null" /\ h.t # "null" /\ stored.n = h.n

\* the NOT EXISTS subquery of lines 559-569
LaborExists(tbl, vals) ==
    \E i \in 1..Len(tbl) :
        /\ tbl[i].LoggedDate = vals.LoggedDate
        /\ TrimText(tbl[i].EmployeeNumber) = TrimText(vals.EmployeeNumber)
        /\ HoursMatch(tbl[i].ActualHours, vals.ActualHours)

\* the key of UX_SCHLabor_Row: LoggedDate, IFNULL(EmployeeNumber,''), and
\* the three columns left out
RowKey(row) ==
    <<row.LoggedDate,
      IF row.EmployeeNumber.t = "null" THEN Str(<<>>) ELSE row.EmployeeNumber>>

\* UX_SCHLabor_FullRow compares the plain columns; a NULL never collides
FullRowClash(a, b) ==
    /\ a.LoggedDate = b.LoggedDate
    /\ a.EmployeeNumber.t # "null" /\ a.EmployeeNumber = b.EmployeeNumber
    /\ a.ActualHours.t # "null" /\ a.ActualHours = b.ActualHours

\* the INSERT violates a unique index that exists
UniqueViolation(acc, row) ==
    \/ acc.ixRow /\ \E i \in 1..Len(acc.tbl) : RowKey(acc.tbl[i]) = RowKey(row)
    \/ acc.ixFull /\ \E i \in 1..Len(acc.tbl) : FullRowClash(acc.tbl[i], row)

\* the INSERT of a row the subquery did not find; sqlite3.IntegrityError
\* ends the function through "except Exception: return 0"
InsertLabor(acc, row) ==
    IF UniqueViolation(acc, row) THEN [acc EXCEPT !.err = TRUE]
    ELSE [acc EXCEPT !.tbl = Append(@, row), !.inserted = @ + 1]

ImportRow(acc, vals) ==
    IF LaborExists(acc.tbl, vals) THEN acc ELSE InsertLabor(acc, StoredLabor(vals))

\* if len(parts) != len(header): continue
ImportLine(acc, ln) == IF ~ln.fits THEN acc ELSE ImportRow(acc, LaborVals(ln))

\* lines 525-582: the data lines in file order
RECURSIVE ImportLoop(_, _)
ImportLoop(acc, f) ==
    IF f = <<>> \/ acc.err THEN acc
    ELSE ImportLoop(ImportLine(acc, Head(f)), Tail(f))

\* the cursor's view when the function starts, and the indexes in force
ImportStart(tbl, ixRow, ixFull) ==
    [tbl |-> tbl, inserted |-> 0, err |-> FALSE, ixRow |-> ixRow, ixFull |-> ixFull]

ImportReturn(acc) == IF acc.err THEN 0 ELSE acc.inserted

\* _import_labor_csv(cur, path) and the caller's conn.commit(): the rows
\* inserted before an exception stay in the transaction and are committed
ImportCommitted(acc) ==
    /\ labor' = acc.tbl
    /\ lret' = ImportReturn(acc)
    /\ lpre' = labor
    /\ lfirst' = IF ingests = 0 THEN acc.tbl ELSE lfirst
    /\ ingests' = ingests + 1
    /\ lhist' = Append(lhist, [file |-> lfile', ret |-> ImportReturn(acc)])

ImportLaborCsv(f) ==
    /\ ingests = 0
    /\ lfile' = f
    /\ ImportCommitted(ImportLoop(ImportStart(labor, idxRow, idxFull), f))
    /\ UNCHANGED <<idxRow, idxFull, allow>>
    /\ UNCHANGED <<schedVars, callVars>>
    /\ UNCHANGED runVars

ImportLaborCsvAgain ==
    /\ ingests \in 1..MaxIngests
    /\ lfile' = lfile
    /\ ImportCommitted(ImportLoop(ImportStart(labor, idxRow, idxFull), lfile))
    /\ UNCHANGED <<idxRow, idxFull, allow>>
    /\ UNCHANGED <<schedVars, callVars>>
    /\ UNCHANGED runVars

\* lines 719-734: of the rows that share a UX_SCHLabor_Row key keep the one
\* with the lowest rowid
RECURSIVE DedupByKey(_, _)
DedupByKey(tbl, out) ==
    IF tbl = <<>> THEN out
    ELSE DedupByKey(Tail(tbl),
                    IF \E i \in 1..Len(out) : RowKey(out[i]) = RowKey(Head(tbl))
                    THEN out ELSE Append(out, Head(tbl)))

\* ensure_change_log_tables() with ALLOW_SCHLABOR_SCHEMA_MUTATIONS set:
\* _ensure_labor_unique_index collapses duplicates and creates the index
EnsureChangeLogTables ==
    /\ ingests = 0
    /\ allow
    /\ ~idxRow
    /\ labor' = DedupByKey(labor, <<>>)
    /\ idxRow' = TRUE
    /\ UNCHANGED <<idxFull, allow, lfile, lret, lpre, lfirst, ingests, lhist>>
    /\ UNCHANGED <<schedVars, callVars>>
    /\ UNCHANGED runVars

\* new_data_sync_app._ensure_labor_unique_index: CREATE UNIQUE INDEX with no
\* cleanup first; it is created only over rows without duplicate keys
SyncEnsureLaborUniqueIndex ==
    /\ ingests = 0
    /\ ~idxRow
    /\ DedupByKey(labor, <<>>) = labor
    /\ idxRow' = TRUE
    /\ UNCHANGED <<labor, idxFull, allow, lfile, lret, lpre, lfirst, ingests, lhist>>
    /\ UNCHANGED <<schedVars, callVars>>
    /\ UNCHANGED runVars

\* ensure_labor_unique_index / labor_backfill lines 467-477: the full-row
\* index, created unless two stored rows collide (the error is swallowed)
EnsureLaborFullRowIndex ==
    /\ ingests = 0
    /\ ~idxFull
    /\ \A i, j \in 1..Len(labor) : i # j => ~FullRowClash(labor[i], labor[j])
    /\ idxFull' = TRUE
    /\ UNCHANGED <<labor, idxRow, allow, lfile, lret, lpre, lfirst, ingests, lhist>>
    /\ UNCHANGED <<schedVars, callVars>>
    /\ UNCHANGED runVars

\* the summary side at rest
SchedIdle ==
    /\ sched = EmptyTbl
    /\ schedExists = FALSE
    /\ mode = "diff"
    /\ txn = NoTxn
    /\ legacy = NoLegacy
    /\ keyless = FALSE
    /\ xcols = {}
    /\ batch = <<>>
    /\ res = Acc0(EmptyTbl)
    /\ pre = EmptyTbl
    /\ prev = Acc0(EmptyTbl)
    /\ calls = 0

\* files whose ingest into an empty table without indexes left the rows
\* the store starts with
SeedFiles ==
    {<<>>} \cup {<<a, b>> : a, b \in {r \in LaborRecords : r.EmployeeNumber = Str(<<"7">>)}}

InitLabor ==
    /\ SchedIdle
    /\ idxRow = FALSE
    /\ idxFull = FALSE
    /\ allow \in BOOLEAN
    /\ labor \in {ImportLoop(ImportStart(<<>>, FALSE, FALSE), f).tbl : f \in SeedFiles}
    /\ lfile = <<>>
    /\ lret = 0
    /\ lpre = <<>>
    /\ lfirst = <<>>
    /\ ingests = 0
    /\ lhist = <<>>
    /\ RunsIdle

NextLabor ==
    \/ \E f \in LaborFiles : ImportLaborCsv(f)
    \/ ImportLaborCsvAgain
    \/ EnsureChangeLogTables
    \/ SyncEnsureLaborUniqueIndex
    \/ EnsureLaborFullRowIndex

SpecLabor == InitLabor /\ [][NextLabor]_vars

(***************************************************************************)
(* Ingests of up to two different files, in any order, into a table that   *)
(* starts empty.                                                           *)
(***************************************************************************)
MaxHist == 3

FilesOf(h) == {h[i].file : i \in 1..Len(h)}

\* one more call of _import_labor_csv followed by the caller's commit
IngestFile(f) ==
    /\ Len(lhist) < MaxHist
    /\ Cardinality(FilesOf(lhist) \cup {f}) <= 2
    /\ lfile' = f
    /\ ImportCommitted(ImportLoop(ImportStart(labor, idxRow, idxFull), f))
    /\ UNCHANGED <<idxRow, idxFull, allow>>
    /\ UNCHANGED <<schedVars, callVars>>
    /\ UNCHANGED runVars

InitOverlap ==
    /\ SchedIdle
    /\ idxRow = FALSE
    /\ idxFull = FALSE
    /\ allow \in BOOLEAN
    /\ labor = <<>>
    /\ lfile = <<>>
    /\ lret = 0
    /\ lpre = <<>>
    /\ lfirst = <<>>
    /\ ingests = 0
    /\ lhist = <<>>
    /\ RunsIdle

NextOverlap ==
    \/ \E f \in LaborFiles : IngestFile(f)
    \/ EnsureChangeLogTables
    \/ SyncEnsureLaborUniqueIndex
    \/ EnsureLaborFullRowIndex

SpecOverlap == InitOverlap /\ [][NextOverlap]_vars

(***************************************************************************)
(* One ingest of a file that may hold malformed lines.                     *)
(***************************************************************************)
LineDates == DOMAIN IsoDate \cup {"not a date"}

Lines ==
    [LoggedDate : LineDates, EmployeeNumber : {Str(<<"7">>)},
     ActualHours : {Str(<<"1">>), Str(<<"2">>)}, fits : BOOLEAN]

LineFiles == UNION {[1..n -> Lines] : n \in 0..MaxFile}

IngestLines(f) ==
    /\ lhist = <<>>
    /\ lfile' = f
    /\ ImportCommitted(ImportLoop(ImportStart(labor, idxRow, idxFull), f))
    /\ UNCHANGED <<idxRow, idxFull, allow>>
    /\ UNCHANGED <<schedVars, callVars>>
    /\ UNCHANGED runVars

NextLines ==
    \/ \E f \in LineFiles : IngestLines(f)
    \/ EnsureChangeLogTables
    \/ SyncEnsureLaborUniqueIndex
    \/ EnsureLaborFullRowIndex

SpecLines == InitOverlap /\ [][NextLines]_vars

(***************************************************************************)
(* Properties of the labor ingest (SpecLabor).                             *)
(***************************************************************************)
StoredForm(r) == StoredLabor(LaborVals(r))

RowsEqual(tbl, row) == {i \in 1..Len(tbl) : tbl[i] = row}

\* C2 as stated: the first ingest of a file leaves every record of the file
\* in SCHLabor, a second ingest of the same file inserts 0 records, and
\* after any number of repeats the rows are those left by the first ingest.
C2_IngestIdempotent ==
    /\ ingests >= 1 =>
          \A i \in 1..Len(lfile) : RowsEqual(labor, StoredForm(lfile[i])) # {}
    /\ ingests >= 2 => (lret = 0 /\ labor = lfirst)

\* C10 as stated: in every store configuration, of two ingested records
\* that differ only in ActualHours both are retained, and of two records
\* identical in every field (hours NULL included) exactly one is retained.
C10_EventIdentity ==
    (ingests = 1 /\ Len(lfile) = 2 /\ lfile[1].LoggedDate = lfile[2].LoggedDate
        /\ lfile[1].EmployeeNumber = lfile[2].EmployeeNumber) =>
        /\ HoursVal(lfile[1].ActualHours) # HoursVal(lfile[2].ActualHours) =>
              /\ RowsEqual(labor, StoredForm(lfile[1])) # {}
              /\ RowsEqual(labor, StoredForm(lfile[2])) # {}
        /\ HoursVal(lfile[1].ActualHours) = HoursVal(lfile[2].ActualHours) =>
              Cardinality(RowsEqual(labor, StoredForm(lfile[1])))
                = (IF RowsEqual(lpre, StoredForm(lfile[1])) = {} THEN 1
                   ELSE Cardinality(RowsEqual(lpre, StoredForm(lfile[1]))))

(***************************************************************************)
(* The drivers: update_scheduling_summary and labor_backfill, which keep a *)
(* run record, and backfill_sched_summary_overlapping, which walks the     *)
(* windows.  What the report server, the cleaner and the stop event do is  *)
(* an input of the step.                                                   *)
(***************************************************************************)
MaxRuns == 1
MaxWindows == 2

BadRecord == [comnumber1 |-> Str(<<"1", "x">>), jobname |-> Str(<<"x">>), stdhrs |-> Str(<<"5">>)]

RunRecords == {r \in Records : r.comnumber1 = Str(<<"1">>) /\ r.jobname # Str(<<"5", ".", "0">>)}

\* cleaned files: empty, one record, or a record followed by one whose key
\* the table rejects
RunBatches ==
    {<<>>} \cup {<<r>> : r \in RunRecords}
           \cup {<<r, BadRecord>> : r \in {x \in RunRecords : x.jobname = x.stdhrs}}

UpdateInputs ==
    {[kind |-> k, rows |-> <<>>] : k \in {"no_root", "ps_fail", "no_file", "clean_raise", "clean_silent"}}
        \cup {[kind |-> "ok", rows |-> b] : b \in RunBatches}

WindowInputs ==
    {[kind |-> k, rows |-> <<>>] : k \in {"stop", "fetch_fail", "clean_raise", "clean_silent"}}
        \cup {[kind |-> "ok", rows |-> b] : b \in RunBatches}

RunLaborFiles ==
    {f \in LaborFiles : Len(f) <= 1 /\ \A i \in 1..Len(f) :
        f[i].EmployeeNumber = Str(<<"7">>) /\ f[i].ActualHours = Str(<<"1">>)}

\* INSERT INTO RunLog(run_started, run_type, success) VALUES(?,?,0)
RunRow(type) ==
    [run_type |-> type, completed |-> FALSE, success |-> FALSE, message |-> "", writes |-> 0]

\* _finalize_run: UPDATE RunLog SET run_completed, success, message WHERE id
Finalized(log, id, success, msg) ==
    [log EXCEPT ![id] = [run_type |-> @.run_type, completed |-> TRUE, success |-> success,
                         message |-> msg, writes |-> @.writes + 1]]

\* _record_changes: one ChangeLog row per change record, with the run id
Linked(id, recs) == [i \in 1..Len(recs) |-> [run_id |-> id, entry |-> recs[i]]]

\* convert_file1_to_cleaned writes cleaned_file.csv only when it succeeds
CleanedAfter(inp) == IF inp.kind = "ok" THEN [exists |-> TRUE, rows |-> inp.rows] ELSE cleaned

\* rows = parse_cleaned_csv(...); upsert_sched_rows_with_stats(rows)
EngineCall(rows, by, id) ==
    /\ Upsert(rows)
    /\ batch' = rows
    /\ prev' = res
    /\ UNCHANGED calls
    /\ invocations' = Append(invocations,
           [by |-> by, run_id |-> id,
            changes |-> IF res'.err = "" THEN res'.change_records ELSE <<>>])

\* the effect of ensure_change_log_tables() on SCHLabor
EnsuredLabor == IF allow /\ ~idxRow THEN DedupByKey(labor, <<>>) ELSE labor

\* lines 313-341: a failure before the engine is reached
UpdateFails(id, msg) ==
    /\ runLog' = Finalized(Append(runLog, RunRow("SchedulingSummary")), id, FALSE, msg)
    /\ ret' = [run_id |-> id, status |-> "fail"]
    /\ UNCHANGED <<schedVars, callVars, changeLog, invocations>>

\* lines 343-363; _finalize_run opens a connection of its own, and its
\* UPDATE raises "database is locked" while the engine's abandoned
\* connection holds its transaction
\* what can happen once upsert_sched_rows_with_stats has committed (line
\* 273): nothing; the process is killed; _record_changes raises and
\* _finalize_run works; another process takes the write lock, so that
\* _record_changes and the _finalize_run of the except clause both raise
Faults == {"none", "crash", "record_raises", "locked"}

\* lines 343-363, after the cleaned file was parsed
UpdateUpsertsFaulty(id, rows, fault) ==
    /\ EngineCall(rows, "update", id)
    /\ fault # "none" => res'.err = ""
    /\ fault \in {"record_raises", "locked"} => res'.change_records # <<>>
    /\ changeLog' = IF res'.err = "" /\ fault = "none"
                    THEN changeLog \o Linked(id, res'.change_records)
                    ELSE changeLog
    /\ runLog' = IF fault \in {"crash", "locked"} THEN Append(runLog, RunRow("SchedulingSummary"))
                 ELSE IF fault = "record_raises"
                 THEN Finalized(Append(runLog, RunRow("SchedulingSummary")), id, FALSE,
                                "Upsert failed")
                 ELSE IF res'.err = ""
                 THEN Finalized(Append(runLog, RunRow("SchedulingSummary")), id, TRUE, "rows")
                 ELSE IF txn'.open THEN Append(runLog, RunRow("SchedulingSummary"))
                 ELSE Finalized(Append(runLog, RunRow("SchedulingSummary")), id, FALSE,
                                "Upsert failed")
    /\ ret' = [run_id |-> id,
               status |-> IF fault = "crash" THEN "killed"
                          ELSE IF fault = "locked" THEN "raised"
                          ELSE IF fault = "record_raises" THEN "fail"
                          ELSE IF res'.err = "" THEN "ok"
                          ELSE IF txn'.open THEN "raised" ELSE "fail"]

UpdateUpserts(id, rows) == UpdateUpsertsFaulty(id, rows, "none")

\* update_scheduling_summary(); while another connection holds the write
\* lock the INSERT into RunLog raises and nothing is written
UpdateSchedulingSummary(inp) ==
    /\ bf.pc = "idle"
    /\ Len(runLog) < MaxRuns
    /\ ~txn.open
    /\ cleaned' = CleanedAfter(inp)
    /\ IF inp.kind \in {"no_root", "ps_fail", "no_file", "clean_raise"}
       THEN UpdateFails(Len(runLog) + 1, inp.kind)
       ELSE IF ~cleaned'.exists
       THEN UpdateFails(Len(runLog) + 1, "Upsert failed")
       ELSE UpdateUpserts(Len(runLog) + 1, cleaned'.rows)
    /\ labor' = EnsuredLabor
    /\ idxRow' = (idxRow \/ allow)
    /\ UNCHANGED <<idxFull, allow, lfile, lret, lpre, lfirst, ingests, lhist>>
    /\ UNCHANGED <<bf, lb, stop_event, drv, plan, canon>>

NoFullRowClash(tbl) == \A i, j \in 1..Len(tbl) : i # j => ~FullRowClash(tbl[i], tbl[j])

\* labor_backfill after ensure_change_log_tables: the run row, the range
\* download, the full-row index, one day's file, the commit, _finalize_run
LaborBackfillRun(id, kind, f, tbl, ixRow, ixFull) ==
    /\ labor' = IF kind = "ok" THEN ImportLoop(ImportStart(tbl, ixRow, ixFull), f).tbl ELSE tbl
    /\ idxRow' = ixRow
    /\ idxFull' = ixFull
    /\ runLog' = Finalized(Append(runLog, RunRow("Labor")), id, kind # "ps_fail", kind)
    /\ ret' = [run_id |-> id, status |-> IF kind = "ps_fail" THEN "fail" ELSE "ok"]

LaborBackfill(kind, f) ==
    /\ bf.pc = "idle"
    /\ Len(runLog) < MaxRuns
    /\ ~txn.open
    /\ LaborBackfillRun(Len(runLog) + 1, kind, f, EnsuredLabor, idxRow \/ allow,
                        IF kind = "ps_fail" THEN idxFull
                        ELSE idxFull \/ NoFullRowClash(EnsuredLabor))
    /\ UNCHANGED <<allow, lfile, lret, lpre, lfirst, ingests, lhist>>
    /\ UNCHANGED <<schedVars, callVars, changeLog, invocations, cleaned, bf, lb, stop_event, drv, plan, canon>>

\* the call of backfill_sched_summary_overlapping over a range of n
\* windows, up to the first test of "while cur_start <= end"
BackfillStart(n) ==
    /\ bf.pc = "idle"
    /\ bf' = IF n = 0 THEN [BfIdle EXCEPT !.pc = "done", !.ok = TRUE]
             ELSE [BfIdle EXCEPT !.pc = "run", !.n = n]
    /\ UNCHANGED <<schedVars, callVars, laborVars>>
    /\ UNCHANGED <<runLog, changeLog, invocations, cleaned, ret, lb, stop_event, drv, plan, canon>>

Step(i, s, ok) == [k |-> i, step |-> s, ok |-> ok]

\* return {'ok': False, ..., 'chunks_completed': chunk_index - 1}
BfFailed(b, i, steps, data) ==
    [b EXCEPT !.pc = "done", !.ok = FALSE, !.k = i, !.chunks_completed = i - 1,
              !.steps = @ \o steps, !.wins = Append(@, data)]

\* chunks.append(...); the loop ends after the last window
BfChunkDone(b, i, steps, data) ==
    [b EXCEPT !.pc = IF i = b.n THEN "done" ELSE "run", !.ok = (i = b.n), !.k = i,
              !.chunks = @ + 1, !.steps = @ \o steps, !.wins = Append(@, data)]

\* lines 917 and 931: emit('error', index=..., phase=..., message=...) binds
\* phase twice and raises TypeError inside the except clause, so a window
\* whose cleaning or reconciliation raised ends the driver by an exception
BfRaised(b, i, steps, data) ==
    [b EXCEPT !.pc = "raised", !.ok = FALSE, !.k = i,
              !.steps = @ \o steps, !.wins = Append(@, data)]

\* lines 919-932: parse cleaned_file.csv and reconcile it
BackfillReconcile(i, rows, cleanOk, data) ==
    /\ EngineCall(rows, "backfill", 0)
    /\ bf' = IF res'.err = ""
             THEN BfChunkDone(bf, i, <<Step(i, "fetch", TRUE), Step(i, "clean", cleanOk),
                                       Step(i, "reconcile", TRUE)>>, data)
             ELSE BfRaised(bf, i, <<Step(i, "fetch", TRUE), Step(i, "clean", cleanOk),
                                    Step(i, "reconcile", FALSE)>>, data)

\* one pass of the loop over the windows.  clean_raise: the cleaner raised;
\* clean_silent: the cleaner logged its error and returned without writing
BackfillWindow(w) ==
    /\ bf.pc = "run"
    /\ cleaned' = CleanedAfter(w)
    /\ IF w.kind = "stop"
       THEN /\ bf' = [bf EXCEPT !.pc = "done", !.ok = TRUE]
            /\ UNCHANGED <<schedVars, callVars, invocations>>
       ELSE IF w.kind = "fetch_fail"
       THEN /\ bf' = BfFailed(bf, bf.k + 1, <<Step(bf.k + 1, "fetch", FALSE)>>, <<>>)
            /\ UNCHANGED <<schedVars, callVars, invocations>>
       ELSE IF w.kind = "clean_raise"
       THEN /\ bf' = BfRaised(bf, bf.k + 1, <<Step(bf.k + 1, "fetch", TRUE),
                                               Step(bf.k + 1, "clean", FALSE)>>, <<>>)
            /\ UNCHANGED <<schedVars, callVars, invocations>>
       ELSE IF ~cleaned'.exists
       THEN /\ bf' = BfRaised(bf, bf.k + 1, <<Step(bf.k + 1, "fetch", TRUE),
                                               Step(bf.k + 1, "clean", FALSE),
                                               Step(bf.k + 1, "reconcile", FALSE)>>, <<>>)
            /\ UNCHANGED <<schedVars, callVars, invocations>>
       ELSE BackfillReconcile(bf.k + 1, cleaned'.rows, w.kind = "ok", w.rows)
    /\ UNCHANGED laborVars
    /\ UNCHANGED <<runLog, changeLog, ret, lb, stop_event, drv, plan, canon>>

InitRuns ==
    /\ sched \in {t \in SeedTables : \A k \in DOMAIN t : t[k].jobname = Str(<<"x">>)}
    /\ schedExists \in (IF sched = EmptyTbl THEN BOOLEAN ELSE {TRUE})
    /\ mode \in {"diff", "bulk"}
    /\ txn = NoTxn
    /\ legacy = NoLegacy
    /\ keyless = FALSE
    /\ xcols = {}
    /\ batch = <<>>
    /\ res = Acc0(EmptyTbl)
    /\ pre = EmptyTbl
    /\ prev = Acc0(EmptyTbl)
    /\ calls = 0
    /\ LaborIdle
    /\ RunsIdle

NextRuns ==
    \/ \E inp \in UpdateInputs : UpdateSchedulingSummary(inp)
    \/ \E kind \in {"ps_fail", "stop", "ok"}, f \in RunLaborFiles : LaborBackfill(kind, f)
    \/ \E n \in 0..MaxWindows : BackfillStart(n)
    \/ \E w \in WindowInputs : BackfillWindow(w)
    \/ ConnReclaimed

SpecRuns == InitRuns /\ [][NextRuns]_vars

\* update_scheduling_summary() with a fault after the upsert's commit
UpdateFaulty(rows, fault) ==
    /\ bf.pc = "idle"
    /\ Len(runLog) < MaxRuns
    /\ ~txn.open
    /\ cleaned' = [exists |-> TRUE, rows |-> rows]
    /\ UpdateUpsertsFaulty(Len(runLog) + 1, rows, fault)
    /\ labor' = EnsuredLabor
    /\ idxRow' = (idxRow \/ allow)
    /\ UNCHANGED <<idxFull, allow, lfile, lret, lpre, lfirst, ingests, lhist>>
    /\ UNCHANGED <<bf, lb, stop_event, drv, plan, canon>>

NextFaults ==
    \/ \E inp \in UpdateInputs : UpdateSchedulingSummary(inp)
    \/ \E b \in RunBatches, fault \in Faults \ {"none"} : UpdateFaulty(b, fault)
    \/ ConnReclaimed

SpecFaults == InitRuns /\ [][NextFaults]_vars

(***************************************************************************)
(* Batches whose records have no comnumber1 field: a cleaned file whose     *)
(* header lacks the column.  A table created from such a batch has no key   *)
(* column; calls with keyed batches on that table are not followed.         *)
(***************************************************************************)
KeylessRecords == [jobname : NameVals, stdhrs : HrsVals]

KeylessBatches == {<<r>> : r \in KeylessRecords} \cup {<<r, r>> : r \in KeylessRecords}

KeylessInputs == {[kind |-> "ok", rows |-> b] : b \in KeylessBatches}

IsKeyless(b) == b # <<>> /\ "comnumber1" \notin DOMAIN b[1]

NextKeyless ==
    \/ \E b \in KeylessBatches : Reconcile(b)
    \/ \E b \in RunBatches : ~keyless /\ Reconcile(b)
    \/ ReconcileAgain
    \/ \E inp \in KeylessInputs : UpdateSchedulingSummary(inp)
    \/ \E inp \in UpdateInputs : ~keyless /\ UpdateSchedulingSummary(inp)
    \/ ConnReclaimed

SpecKeyless == InitRuns /\ [][NextKeyless]_vars

(***************************************************************************)
(* Batches with one more column.  Every record holds the text x in it, and  *)
(* the table starts without rows, so the column never differs between a     *)
(* record and the row it meets and the rows are those of the three modelled *)
(* columns.                                                                 *)
(***************************************************************************)
ColumnNames == {"ab", "a_1", "a b", "a\"b", "1a", "a;", ""}

Widened(b, c) ==
    [i \in DOMAIN b |->
        [k \in DOMAIN b[i] \cup {c} |-> IF k = c THEN Str(<<"x">>) ELSE b[i][k]]]

WideBatches == {Widened(b, c) : b \in RunBatches \ {<<>>}, c \in ColumnNames}

InitColumns ==
    /\ InitRuns
    /\ sched = EmptyTbl

NextColumns ==
    \/ \E b \in WideBatches : Reconcile(b)
    \/ ReconcileAgain
    \/ ConnReclaimed

SpecColumns == InitColumns /\ [][NextColumns]_vars

(***************************************************************************)
(* The functions that load labor files into a table that already holds     *)
(* rows: labor_backfill and the two reimport functions.                    *)
(***************************************************************************)
\* the daily files found on disk, in date order
DayFileLists ==
    {<<>>} \cup {<<f>> : f \in RunLaborFiles} \cup {<<f, g>> : f, g \in RunLaborFiles}

\* for each file: added = _import_labor_csv(cur, path); inserted += added
RECURSIVE ImportFiles(_, _, _, _, _)
ImportFiles(tbl, fs, ixRow, ixFull, total) ==
    IF fs = <<>> THEN [tbl |-> tbl, inserted |-> total]
    ELSE ImportFiles(ImportLoop(ImportStart(tbl, ixRow, ixFull), Head(fs)).tbl, Tail(fs),
                     ixRow, ixFull,
                     total + ImportReturn(ImportLoop(ImportStart(tbl, ixRow, ixFull), Head(fs))))

Reimported(out) ==
    /\ labor' = out.tbl
    /\ lret' = out.inserted
    /\ lpre' = labor

\* reimport_existing_labor_files(start, end) over the files of the days in
\* range, and reimport_all_labor_files() over every SCHLabor_YYYYMMDD.csv
\* of the directory: both import the files in date order on one connection
\* and commit
ReimportLaborFiles(fs) ==
    /\ Reimported(ImportFiles(labor, fs, idxRow, idxFull, 0))
    /\ UNCHANGED <<idxRow, idxFull, allow, lfile, lfirst, ingests, lhist>>
    /\ UNCHANGED <<schedVars, callVars>>
    /\ UNCHANGED runVars

InitAppend ==
    /\ SchedIdle
    /\ idxRow = FALSE
    /\ idxFull = FALSE
    /\ allow \in BOOLEAN
    /\ labor \in {ImportLoop(ImportStart(<<>>, FALSE, FALSE), f).tbl : f \in SeedFiles}
    /\ lfile = <<>>
    /\ lret = 0
    /\ lpre = <<>>
    /\ lfirst = <<>>
    /\ ingests = 0
    /\ lhist = <<>>
    /\ RunsIdle

NextAppend ==
    \/ \E kind \in {"ps_fail", "stop", "ok"}, f \in RunLaborFiles : LaborBackfill(kind, f)
    \/ \E fs \in DayFileLists : ReimportLaborFiles(fs)

SpecAppend == InitAppend /\ [][NextAppend]_vars

(***************************************************************************)
(* labor_backfill over the daily files SCHLabor_YYYYMMDD.csv, and its      *)
(* re-run over the same files.  Day MaxDays is today; the file of day d    *)
(* holds records logged on day d.                                          *)
(***************************************************************************)
MaxDays == 2
MaxLaborRuns == 2

DayDate == <<"2024-01-01", "2024-01-02", "2024-01-03">>

DayIndex(d) ==
    IF \E i \in 1..Len(DayDate) : DayDate[i] = d
    THEN CHOOSE i \in 1..Len(DayDate) : DayDate[i] = d
    ELSE 0

DayFileChoices ==
    {<<>>}
      \cup {<<r>> : r \in {x \in LaborRecords : x.ActualHours # Str(<<"2">>)}}
      \cup {<<a, b>> : a \in {x \in LaborRecords : x.EmployeeNumber = Str(<<"7">>)
                                                    /\ x.ActualHours = Str(<<"1">>)},
                       b \in {x \in LaborRecords : x.EmployeeNumber = Str(<<"7">>)
                                                    /\ x.ActualHours = Str(<<"2">>)}}

DaySources == [1..MaxDays -> DayFileChoices]

DayFile(d, f) == [i \in 1..Len(f) |-> [f[i] EXCEPT !.LoggedDate = DayDate[d]]]

\* SELECT MAX(iso_logged_date) FROM SCHLabor; 0: no row
RECURSIVE LastDay(_)
LastDay(tbl) ==
    IF tbl = <<>> THEN 0
    ELSE IF DayIndex(Head(tbl).LoggedDate) > LastDay(Tail(tbl))
    THEN DayIndex(Head(tbl).LoggedDate)
    ELSE LastDay(Tail(tbl))

\* lines 440-447 with LABOR_REPROCESS_TRAILING_DAYS = 1: start at the last
\* ingested day, or 60 days back (the first modelled day) without data
StartDay(last) == IF last = 0 THEN 1 ELSE last

DayStart(tbl) == [tbl |-> tbl, inserted |-> 0, log |-> <<>>, stopped |-> FALSE]

DayImported(st, d, acc) ==
    [st EXCEPT !.tbl = acc.tbl, !.inserted = @ + ImportReturn(acc),
               !.log = Append(@, [day |-> d, ev |-> "import"])]

\* lines 479-502: while cur_day <= end; stopAt: the first day before which
\* the stop event is found set (0: never)
RECURSIVE DayLoop(_, _, _, _, _, _)
DayLoop(st, d, fs, stopAt, ixRow, ixFull) ==
    IF d > Len(fs) THEN st
    ELSE IF stopAt # 0 /\ stopAt <= d
    THEN [st EXCEPT !.stopped = TRUE, !.log = Append(@, [day |-> d, ev |-> "stopped"])]
    ELSE DayLoop(DayImported(st, d, ImportLoop(ImportStart(st.tbl, ixRow, ixFull),
                                               DayFile(d, fs[d]))),
                 d + 1, fs, stopAt, ixRow, ixFull)

LaborDaysDone(id, fs, start, out, ixRow, ixFull) ==
    /\ labor' = out.tbl
    /\ idxRow' = ixRow
    /\ idxFull' = ixFull
    /\ runLog' = Finalized(Append(runLog, RunRow("Labor")), id, TRUE,
                           IF out.stopped THEN "Stopped early" ELSE "Inserted")
    /\ ret' = [run_id |-> id, status |-> "ok"]
    /\ lb' = [src |-> fs, runs |-> lb.runs + 1,
              hist |-> Append(lb.hist, [start |-> start, stopped |-> out.stopped,
                                        inserted |-> out.inserted, log |-> out.log])]

LaborDaysFrom(fs, stopAt, tbl, start, ixRow, ixFull) ==
    LaborDaysDone(Len(runLog) + 1, fs, start,
                  DayLoop(DayStart(tbl), start, fs, stopAt, ixRow, ixFull), ixRow, ixFull)

\* labor_backfill(stop_event) when the range download succeeds
LaborBackfillDays(fs, stopAt) ==
    /\ bf.pc = "idle"
    /\ ~txn.open
    /\ lb.runs < MaxLaborRuns
    /\ lb.runs = 0 \/ fs = lb.src
    /\ LaborDaysFrom(fs, stopAt, EnsuredLabor, StartDay(LastDay(EnsuredLabor)),
                     idxRow \/ allow, idxFull \/ NoFullRowClash(EnsuredLabor))
    /\ UNCHANGED <<allow, lfile, lret, lpre, lfirst, ingests, lhist>>
    /\ UNCHANGED <<schedVars, callVars, changeLog, invocations, cleaned, bf, stop_event, drv, plan, canon>>

NextRestart ==
    \/ \E fs \in DaySources, stopAt \in 0..MaxDays : LaborBackfillDays(fs, stopAt)

SpecRestart == InitOverlap /\ [][NextRestart]_vars

(***************************************************************************)
(* The two loops step by step, beside the thread that sets the stop event. *)
(* A window is fetched, cleaned and reconciled; a day's file is imported.  *)
(* drv.log keeps the reads of the stop event and the start and end of each *)
(* unit, drv.events what the progress callback was given, drv.sets where   *)
(* the driver stood when the event was set.                                *)
(***************************************************************************)
MaxUnits == 2

BfOkKeys ==
    {"ok", "chunks", "total_chunks", "new_rows", "updated_rows", "total_changes",
     "primary_months", "overlap_months", "stride_months"}

\* emit(phase, ...) with a progress callback
Emit(d, phase) == [d EXCEPT !.events = Append(@, [phase |-> phase, index |-> d.index])]

Note(d, ev) == [d EXCEPT !.log = Append(@, [ev |-> ev, index |-> d.index])]

Returned(d, result) == [d EXCEPT !.pc = "returned", !.result = result]

\* stop_event.is_set()
ReadStop(d) == Note(d, IF stop_event THEN "read-set" ELSE "read-clear")

\* lines 936-948: emit('all-done', ...) and the summary
BfAllDone(d) ==
    Returned(Emit(d, "all-done"),
             [ok |-> TRUE, keys |-> BfOkKeys, count |-> d.chunks,
              stats |-> [new_rows |-> d.total_new, updated_rows |-> d.total_updates,
                         total_changes |-> d.total_changes]])

\* a failed window after which the loop goes on
BfError_continue(d, keys) ==
    [Emit(Note(d, "unit-fail"), "error") EXCEPT !.pc = "head"]

\* lines 917 and 931: emit('error', index=..., phase=..., message=...) binds
\* phase twice, so the call raises TypeError inside the except clause,
\* with or without a progress callback, and the exception leaves the driver
BfRaise(d) == [Note(d, "unit-fail") EXCEPT !.pc = "raised"]

\* lines 900-908: the return of a window whose download failed
BfError(d, keys) ==
    Returned(Emit(Note(d, "unit-fail"), "error"),
             [ok |-> FALSE, keys |-> keys, count |-> d.index - 1, stats |-> NoStats])

\* lines 868-882
BfCall(n) ==
    /\ drv.pc = "idle"
    /\ drv' = [DrvIdle EXCEPT !.fn = "backfill", !.pc = "head", !.n = n]
    /\ UNCHANGED <<schedVars, callVars, laborVars>>
    /\ UNCHANGED <<runLog, changeLog, invocations, cleaned, bf, ret, lb, stop_event, plan, canon>>

\* lines 883-891: the loop test, the stop check, the window's bounds
BfHead ==
    /\ drv.fn = "backfill"
    /\ drv.pc = "head"
    /\ drv' = IF drv.index >= drv.n THEN BfAllDone(drv)
              ELSE IF stop_event THEN BfAllDone(Emit(ReadStop(drv), "stopped"))
              ELSE Emit(Note([ReadStop(drv) EXCEPT !.index = @ + 1, !.pc = "fetch"],
                             "unit-start"), "chunk-start")
    /\ UNCHANGED <<schedVars, callVars, laborVars>>
    /\ UNCHANGED <<runLog, changeLog, invocations, cleaned, bf, ret, lb, stop_event, plan, canon>>

\* a download that gives way to the stop event
BfFetched_preempt(d, ok) ==
    IF stop_event THEN BfAllDone(Emit(ReadStop(d), "stopped"))
    ELSE IF ok THEN [Emit(d, "download-done") EXCEPT !.pc = "clean"]
    ELSE BfError(d, {"ok", "error", "rc", "detail", "chunks_completed"})

\* lines 892-908: the download returned
BfFetched(d, ok) ==
    IF ok THEN [Emit(d, "download-done") EXCEPT !.pc = "clean"]
    ELSE BfError(d, {"ok", "error", "rc", "detail", "chunks_completed"})

BfFetch(ok) ==
    /\ drv.fn = "backfill"
    /\ drv.pc = "fetch"
    /\ drv' = BfFetched(drv, ok)
    /\ UNCHANGED <<schedVars, callVars, laborVars>>
    /\ UNCHANGED <<runLog, changeLog, invocations, cleaned, bf, ret, lb, stop_event, plan, canon>>

\* lines 910-917
BfClean(w) ==
    /\ drv.fn = "backfill"
    /\ drv.pc = "clean"
    /\ cleaned' = CleanedAfter(w)
    /\ drv' = IF w.kind = "clean_raise" THEN BfRaise(drv)
              ELSE [Emit(drv, "clean-done") EXCEPT !.pc = "upsert"]
    /\ UNCHANGED <<schedVars, callVars, laborVars>>
    /\ UNCHANGED <<runLog, changeLog, invocations, bf, ret, lb, stop_event, plan, canon>>

\* sum(1 for c in change_recs if c.get('column') == '*NEW*')
NewCount(change_recs) ==
    Cardinality({i \in 1..Len(change_recs) : change_recs[i].column = "*NEW*"})

\* lines 923-927: the window's change records are classified and added up;
\* engine keeps the counters the reconcile call of each window returned
BfTotals(d, r) ==
    [d EXCEPT !.total_new = @ + NewCount(r.change_records),
              !.total_updates = @ + (Len(r.change_records) - NewCount(r.change_records)),
              !.total_changes = @ + Len(r.change_records),
              !.engine = Append(@, [new_rows |-> r.new_rows, updated_rows |-> r.updated_rows,
                                    changes |-> Len(r.change_records)])]

BfUpserted(d, r) ==
    IF r.err # "" THEN BfRaise(d)
    ELSE Note(Emit(Emit([BfTotals(d, r) EXCEPT !.chunks = @ + 1, !.pc = "head"],
                        "upsert-done"),
                   "chunk-done"), "unit-end")

\* lines 919-934
BfUpsert ==
    /\ drv.fn = "backfill"
    /\ drv.pc = "upsert"
    /\ IF ~cleaned.exists
       THEN /\ drv' = BfUpserted(drv, [Acc0(EmptyTbl) EXCEPT !.err = "no file"])
            /\ UNCHANGED <<schedVars, callVars, invocations>>
       ELSE /\ EngineCall(cleaned.rows, "backfill", 0)
            /\ drv' = BfUpserted(drv, res')
    /\ UNCHANGED laborVars
    /\ UNCHANGED <<runLog, changeLog, cleaned, bf, ret, lb, stop_event, plan, canon>>

\* labor_backfill, lines 402-478: the run row, the first day, the range
\* download, the full-row index
LbCall(fs, psOk) ==
    /\ drv.pc = "idle"
    /\ labor' = EnsuredLabor
    /\ idxRow' = (idxRow \/ allow)
    /\ idxFull' = IF psOk THEN idxFull \/ NoFullRowClash(EnsuredLabor) ELSE idxFull
    /\ runLog' = IF psOk THEN Append(runLog, RunRow("Labor"))
                 ELSE Finalized(Append(runLog, RunRow("Labor")), Len(runLog) + 1, FALSE, "PS error")
    /\ ret' = IF psOk THEN ret ELSE [run_id |-> Len(runLog) + 1, status |-> "fail"]
    /\ drv' = IF psOk
              THEN Emit([DrvIdle EXCEPT !.fn = "labor", !.pc = "head", !.n = Len(fs),
                                        !.first = StartDay(LastDay(EnsuredLabor)),
                                        !.run_id = Len(runLog) + 1, !.src = fs], "init")
              ELSE Returned(Emit([DrvIdle EXCEPT !.fn = "labor", !.run_id = Len(runLog) + 1],
                                 "error"),
                            [ok |-> FALSE, keys |-> {"ok", "error"}, count |-> 0,
                             stats |-> NoStats])
    /\ UNCHANGED <<allow, lfile, lret, lpre, lfirst, ingests, lhist>>
    /\ UNCHANGED <<schedVars, callVars, changeLog, invocations, cleaned, bf, lb, stop_event, plan, canon>>

\* lines 479-485 and 502-505: the loop test and the stop check; both
\* returns commit and close the run row
LbHead ==
    /\ drv.fn = "labor"
    /\ drv.pc = "head"
    /\ drv' = IF drv.first + drv.index > drv.n
              THEN Returned(Emit(drv, "done"),
                            [ok |-> TRUE, count |-> drv.inserted, stats |-> NoStats,
                             keys |-> {"ok", "inserted", "start", "end", "commit_every",
                                       "reprocess_today"}])
              ELSE IF stop_event
              THEN Returned(Emit(ReadStop(drv), "stopped"),
                            [ok |-> TRUE, count |-> drv.inserted, stats |-> NoStats,
                             keys |-> {"ok", "inserted", "stopped", "start", "end"}])
              ELSE Note([ReadStop(drv) EXCEPT !.index = @ + 1, !.pc = "import"], "unit-start")
    /\ runLog' = IF drv'.pc # "returned" THEN runLog
                 ELSE Finalized(runLog, drv.run_id, TRUE,
                                IF stop_event /\ drv.first + drv.index <= drv.n
                                THEN "Stopped early" ELSE "Inserted")
    /\ ret' = IF drv'.pc # "returned" THEN ret ELSE [run_id |-> drv.run_id, status |-> "ok"]
    /\ UNCHANGED <<schedVars, callVars, laborVars>>
    /\ UNCHANGED <<changeLog, invocations, cleaned, bf, lb, stop_event, plan, canon>>

\* the day of the unit that is running
CurDay(d) == d.first + d.index - 1

LbImported(d, acc) ==
    Note(Emit([d EXCEPT !.inserted = @ + ImportReturn(acc), !.pc = "head"], "day"), "unit-end")

\* lines 486-500: the day's file; an empty entry of the source is a day
\* without a file
LbDay ==
    /\ drv.fn = "labor"
    /\ drv.pc = "import"
    /\ IF drv.src[CurDay(drv)] = <<>>
       THEN /\ drv' = Note(Emit(Emit([drv EXCEPT !.pc = "head"], "missing-file"), "day"),
                           "unit-end")
            /\ UNCHANGED labor
       ELSE /\ labor' = ImportLoop(ImportStart(labor, idxRow, idxFull),
                                   DayFile(CurDay(drv), drv.src[CurDay(drv)])).tbl
            /\ drv' = LbImported(drv, ImportLoop(ImportStart(labor, idxRow, idxFull),
                                                 DayFile(CurDay(drv), drv.src[CurDay(drv)])))
    /\ UNCHANGED <<idxRow, idxFull, allow, lfile, lret, lpre, lfirst, ingests, lhist>>
    /\ UNCHANGED <<schedVars, callVars>>
    /\ UNCHANGED <<runLog, changeLog, invocations, cleaned, bf, ret, lb, stop_event, plan, canon>>

\* desktop_sync_app._request_stop: stop_event.set(), while the run lasts
SetStop ==
    /\ drv.pc \notin {"idle", "returned", "raised"}
    /\ ~stop_event
    /\ stop_event' = TRUE
    /\ drv' = [drv EXCEPT !.sets = Append(@, [pc |-> drv.pc, index |-> drv.index])]
    /\ UNCHANGED <<schedVars, callVars, laborVars>>
    /\ UNCHANGED <<runLog, changeLog, invocations, cleaned, bf, ret, lb, plan, canon>>

CleanInputs ==
    {[kind |-> k, rows |-> <<>>] : k \in {"clean_raise", "clean_silent"}}
        \cup {[kind |-> "ok", rows |-> b] : b \in RunBatches}

CancelSources ==
    {fs \in DaySources : \A d \in 1..MaxDays : Len(fs[d]) <= 1}

NextCancel ==
    \/ \E n \in 0..MaxUnits : BfCall(n)
    \/ BfHead
    \/ \E ok \in BOOLEAN : BfFetch(ok)
    \/ \E w \in CleanInputs : BfClean(w)
    \/ BfUpsert
    \/ \E fs \in CancelSources, psOk \in BOOLEAN : LbCall(fs, psOk)
    \/ LbHead
    \/ LbDay
    \/ SetStop

SpecCancel == InitRuns /\ [][NextCancel]_vars

(***************************************************************************)
(* A summary table that pre-existed without a key constraint: comnumber1   *)
(* is a TEXT column beside a surrogate rowid, and keys may repeat.  Both   *)
(* reconcilers meet it: upsert_sched_rows_with_stats through               *)
(* ensure_sched_table, and new_data_sync_app.sched_update through          *)
(* _ensure_sched_unique.                                                   *)
(***************************************************************************)
MaxLegacyRows == 3
MaxLegacyCalls == 2

LegacyRecords ==
    {r \in Records : r.comnumber1 \in {Str(<<"1">>), Str(<<"2">>)} /\ r.stdhrs = Str(<<"5">>)
                     /\ r.jobname # Str(<<"5", ".", "0">>)}

LegacyBatches == {<<>>} \cup {<<r>> : r \in LegacyRecords}
                        \cup {<<a, b>> : a \in LegacyRecords, b \in LegacyRecords}

\* the row an INSERT of record r stores under the given rowid
LegacyRow(id, r) ==
    [rowid |-> id, comnumber1 |-> r.comnumber1,
     jobname |-> StoreAs(ColType("jobname"), r.jobname),
     stdhrs |-> StoreAs(ColType("stdhrs"), r.stdhrs)]

LegacySeeds ==
    UNION {{[i \in 1..n |-> LegacyRow(i, f[i])] : f \in [1..n -> LegacyRecords]}
              : n \in 0..MaxLegacyRows}

HasDuplicateKey(rows) ==
    \E i, j \in 1..Len(rows) : i # j /\ rows[i].comnumber1 = rows[j].comnumber1

\* DELETE FROM SCHSchedulingSummary WHERE rowid NOT IN
\*   (SELECT MIN(rowid) FROM SCHSchedulingSummary GROUP BY comnumber1)
KeepLowest(rows) ==
    LET Lowest(x) == \A j \in 1..Len(rows) :
                        rows[j].comnumber1 = x.comnumber1 => rows[j].rowid >= x.rowid
    IN  SelectSeq(rows, Lowest)

\* ensure_sched_table, lines 125-157, on a table without primary key
EnsureSchedTable(lg) ==
    IF lg.unique THEN [lg EXCEPT !.ensured = TRUE]
    ELSE [lg EXCEPT !.rows = KeepLowest(@), !.unique = TRUE, !.ensured = TRUE]

NextRowid(rows) == IF rows = <<>> THEN 1 ELSE rows[Len(rows)].rowid + 1

LegacyHits(rows, key) == {i \in 1..Len(rows) : rows[i].comnumber1 = key}

\* UPDATE ... SET cols WHERE comnumber1 = key
LegacyUpdate(rows, r, cols) ==
    [i \in 1..Len(rows) |->
        IF rows[i].comnumber1 # r.comnumber1 THEN rows[i]
        ELSE [rows[i] EXCEPT !.jobname = UpdatedRow(rows[i], r, cols).jobname,
                             !.stdhrs = UpdatedRow(rows[i], r, cols).stdhrs]]

LegacyFound(rows, r, m, hits) ==
    IF hits = {} THEN Append(rows, LegacyRow(NextRowid(rows), r))
    ELSE LegacyUpdate(rows, r,
                      WrittenCols(m, RowChanges(rows[CHOOSE i \in hits : \A j \in hits : i <= j], r)))

\* lines 226-272 on this table
RECURSIVE LegacyLoop(_, _, _)
LegacyLoop(rows, b, m) ==
    IF b = <<>> THEN rows
    ELSE LegacyLoop(LegacyFound(rows, Head(b), m, LegacyHits(rows, Head(b).comnumber1)),
                    Tail(b), m)

BatchKeys(b) == {b[i].comnumber1 : i \in 1..Len(b)}

LegacyUpserted(lg, b, m) ==
    [lg EXCEPT !.rows = LegacyLoop(@, b, m), !.calls = @ + 1, !.written = @ \cup BatchKeys(b)]

\* upsert_sched_rows_with_stats(b): nothing happens for an empty batch
LegacyReconcile(b) ==
    /\ legacy.calls < MaxLegacyCalls
    /\ legacy' = IF b = <<>> THEN [legacy EXCEPT !.calls = @ + 1]
                 ELSE LegacyUpserted(EnsureSchedTable(legacy), b, mode)
    /\ UNCHANGED <<sched, schedExists, keyless, xcols, mode, txn>>
    /\ UNCHANGED <<callVars, laborVars, runVars>>

\* INSERT ... ON CONFLICT(comnumber1) DO UPDATE SET c = excluded.c
SyncUpsertRow(rows, r, hits) ==
    IF hits = {} THEN Append(rows, LegacyRow(NextRowid(rows), r))
    ELSE LegacyUpdate(rows, r, UpdateCols)

RECURSIVE SyncLoop(_, _)
SyncLoop(rows, b) ==
    IF b = <<>> THEN rows
    ELSE SyncLoop(SyncUpsertRow(rows, Head(b), LegacyHits(rows, Head(b).comnumber1)), Tail(b))

\* new_data_sync_app._ensure_sched_unique: CREATE UNIQUE INDEX comes first
\* and raises IntegrityError over repeated keys; the statements after it
\* find no repeated key once the index stands
SyncEnsureSchedUnique(lg) ==
    IF HasDuplicateKey(lg.rows)
    THEN [lg EXCEPT !.ensured = TRUE, !.raised = "IntegrityError"]
    ELSE [lg EXCEPT !.ensured = TRUE, !.unique = TRUE]

SyncUpserted(lg, b) ==
    IF lg.raised # "" THEN [lg EXCEPT !.calls = @ + 1]
    ELSE [lg EXCEPT !.rows = SyncLoop(@, b), !.calls = @ + 1, !.written = @ \cup BatchKeys(b)]

SyncInputs ==
    {[kind |-> k, rows |-> <<>>] : k \in {"ps_fail", "no_file", "clean_raise", "clean_silent"}}
        \cup {[kind |-> "ok", rows |-> b] : b \in LegacyBatches}

\* new_data_sync_app.sched_update(); an exception leaves the block of
\* "with connect() as conn", which rolls the transaction back
SyncSchedUpdate(inp) ==
    /\ legacy.calls < MaxLegacyCalls
    /\ cleaned' = CleanedAfter(inp)
    /\ legacy' = IF inp.kind \in {"ps_fail", "no_file", "clean_raise"} \/ ~cleaned'.exists
                    \/ cleaned'.rows = <<>>
                 THEN [legacy EXCEPT !.calls = @ + 1, !.raised = ""]
                 ELSE SyncUpserted(SyncEnsureSchedUnique([legacy EXCEPT !.raised = ""]),
                                   cleaned'.rows)
    /\ UNCHANGED <<sched, schedExists, keyless, xcols, mode, txn>>
    /\ UNCHANGED <<callVars, laborVars>>
    /\ UNCHANGED <<runLog, changeLog, invocations, bf, ret, lb, stop_event, drv, plan, canon>>

InitLegacy ==
    /\ sched = EmptyTbl
    /\ schedExists = TRUE
    /\ mode \in {"diff", "bulk"}
    /\ txn = NoTxn
    /\ \E s \in LegacySeeds : legacy = [NoLegacy EXCEPT !.rows = s, !.seed = s]
    /\ keyless = FALSE
    /\ xcols = {}
    /\ batch = <<>>
    /\ res = Acc0(EmptyTbl)
    /\ pre = EmptyTbl
    /\ prev = Acc0(EmptyTbl)
    /\ calls = 0
    /\ LaborIdle
    /\ RunsIdle

NextLegacy ==
    \/ \E b \in LegacyBatches : LegacyReconcile(b)
    \/ \E inp \in SyncInputs : SyncSchedUpdate(inp)

SpecLegacy == InitLegacy /\ [][NextLegacy]_vars

(***************************************************************************)
(* The windows of backfill_sched_summary_overlapping over dates.  A date   *)
(* is [y, m, d]; every report is fetched and cleaned and holds no record,  *)
(* so a pass of the loop changes nothing but the driver's own position.    *)
(***************************************************************************)
MaxPrimary == 4
MaxOverlap == 3
MaxSpan == 16

Date(y, m, d) == [y |-> y, m |-> m, d |-> d]

IsLeap(y) == (y % 4 = 0 /\ y % 100 # 0) \/ y % 400 = 0

\* calendar.monthrange(y, m)[1]
MonthRange(y, m) ==
    IF m = 2 THEN (IF IsLeap(y) THEN 29 ELSE 28)
    ELSE IF m \in {4, 6, 9, 11} THEN 30 ELSE 31

MinOf(a, b) == IF a <= b THEN a ELSE b

MaxOf(a, b) == IF a >= b THEN a ELSE b

AddMonthsTo(dt, y, m) == Date(y, m, MinOf(dt.d, MonthRange(y, m)))

\* _add_months(d, months)
AddMonths(dt, months) ==
    AddMonthsTo(dt, dt.y + ((dt.m - 1 + months) \div 12), ((dt.m - 1 + months) % 12) + 1)

\* d - timedelta(days=1)
DayBefore(dt) ==
    IF dt.d > 1 THEN Date(dt.y, dt.m, dt.d - 1)
    ELSE IF dt.m > 1 THEN Date(dt.y, dt.m - 1, MonthRange(dt.y, dt.m - 1))
    ELSE Date(dt.y - 1, 12, 31)

\* the months a range touches
MonthsSpanned(a, b) == (b.y - a.y) * 12 + (b.m - a.m) + 1

\* the order of dates
DateNum(dt) == dt.y * 10000 + dt.m * 100 + dt.d

DateLE(a, b) == DateNum(a) <= DateNum(b)

ChunkEnd_unclipped(cur, months, end) == DayBefore(AddMonths(cur, months))

\* lines 888-891: the day before the tentative end, clipped to end
ChunkEnd(cur, months, end) ==
    IF DateLE(DayBefore(AddMonths(cur, months)), end) THEN DayBefore(AddMonths(cur, months))
    ELSE end

PlanDates ==
    {Date(2021, 5, 14), Date(2021, 11, 14),
     Date(2023, 11, 30), Date(2023, 12, 31), Date(2024, 1, 31), Date(2024, 2, 29),
     Date(2024, 3, 1), Date(2024, 5, 31), Date(2024, 8, 30), Date(2025, 2, 28)}

\* lines 868-870: the fallbacks and the stride
PlanOf(start, end, p, o, primary, overlap) ==
    [PlanIdle EXCEPT !.pc = "run", !.start = start, !.end = end, !.given = <<p, o>>,
                     !.primary_months = primary, !.overlap_months = overlap,
                     !.stride_months = MaxOf(1, primary - overlap), !.cur_start = start]

\* the call, up to the first test of "while cur_start <= end"
PlanCall(start, end, p, o) ==
    /\ plan.pc = "idle"
    /\ plan' = PlanOf(start, end, p, o, IF p < 1 THEN 4 ELSE p, IF o < 0 THEN 1 ELSE o)
    /\ UNCHANGED <<schedVars, callVars, laborVars>>
    /\ UNCHANGED <<runLog, changeLog, invocations, cleaned, bf, ret, lb, stop_event, drv, canon>>

\* one pass of the loop, lines 883-935; the loop ends when cur_start > end
PlanWindow ==
    /\ plan.pc = "run"
    /\ plan' = IF ~DateLE(plan.cur_start, plan.end) THEN [plan EXCEPT !.pc = "done"]
               ELSE [plan EXCEPT
                        !.chunks = Append(@, [start |-> plan.cur_start,
                                              end |-> ChunkEnd(plan.cur_start,
                                                               plan.primary_months, plan.end)]),
                        !.cur_start = AddMonths(plan.cur_start, plan.stride_months)]
    /\ UNCHANGED <<schedVars, callVars, laborVars>>
    /\ UNCHANGED <<runLog, changeLog, invocations, cleaned, bf, ret, lb, stop_event, drv, canon>>

NextPlan ==
    \/ \E start \in PlanDates, end \in PlanDates, p \in 0..MaxPrimary, o \in (-1)..MaxOverlap :
          /\ MonthsSpanned(start, end) <= MaxSpan
          /\ PlanCall(start, end, p, o)
    \/ PlanWindow

InitPlan ==
    /\ SchedIdle
    /\ LaborIdle
    /\ RunsIdle

SpecPlan == InitPlan /\ [][NextPlan]_vars

(***************************************************************************)
(* _canonical applied to a value and then to its own result.               *)
(***************************************************************************)
CanonSigns == {<<>>, <<"-">>, <<"+">>}

CanonInts == {<<>>, <<"0">>, <<"5">>, <<"1", "2">>}

CanonFracs ==
    {<<>>, <<".">>, <<".", "0">>, <<".", "5">>, <<".", "5", "0">>,
     <<".", "0", "0", "0", "0", "0", "1">>,
     <<".", "0", "0", "0", "0", "0", "0", "1">>,
     <<".", "0", "0", "0", "0", "0", "0", "4">>,
     <<".", "1", "2", "3", "4", "5", "6", "7">>,
     <<".", "9", "9", "9", "9", "9", "9", "9">>}

CanonNumerals == {sg \o i \o f : sg \in CanonSigns, i \in CanonInts, f \in CanonFracs}

CanonTexts ==
    {<<>>, <<" ">>, <<"x">>, <<" ", "x", " ">>, <<"5", "x">>, <<"1", "e", "5">>,
     <<"N", "a", "N">>, <<"5", " ", "5">>}

CanonReals == {0, 1, -1, 100, 5 * Scale, -5 * Scale, 15 * (Scale \div 10)}

CanonInputs ==
    {PyNone} \cup {Str(s) : s \in CanonTexts \cup CanonNumerals}
             \cup {Str(<<" ">> \o s \o <<" ">>) : s \in CanonNumerals}
             \cup {Real(n) : n \in CanonReals}

CanonCall(x) ==
    /\ canon.pc = "idle"
    /\ canon' = [pc |-> "once", x |-> x, once |-> Canonical(x), twice |-> <<>>]
    /\ UNCHANGED <<schedVars, callVars, laborVars>>
    /\ UNCHANGED <<runLog, changeLog, invocations, cleaned, bf, ret, lb, stop_event, drv, plan>>

CanonAgain ==
    /\ canon.pc = "once"
    /\ canon' = [canon EXCEPT !.pc = "twice", !.twice = Canonical(Str(canon.once))]
    /\ UNCHANGED <<schedVars, callVars, laborVars>>
    /\ UNCHANGED <<runLog, changeLog, invocations, cleaned, bf, ret, lb, stop_event, drv, plan>>

NextCanon ==
    \/ \E x \in CanonInputs : CanonCall(x)
    \/ CanonAgain

SpecCanon == InitPlan /\ [][NextCanon]_vars

(***************************************************************************)
(* Properties of the reconciliation engine (SpecUpsert).                   *)
(***************************************************************************)
AttrCols == {"jobname", "stdhrs"}

RowIdOf(r) == KeyOf(r.comnumber1).k

\* no two records of the batch name the same stored row
DistinctKeys(b) == \A i, j \in 1..Len(b) : i # j => RowIdOf(b[i]) # RowIdOf(b[j])

\* every value of the batch reads back from its column canonically equal
\* to what was written
StableValues(b) ==
    \A i \in 1..Len(b) : \A c \in AttrCols :
        Canonical(StoreAs(ColType(c), b[i][c])) = Canonical(b[i][c])

SecondCallClean ==
    /\ res.err = ""
    /\ res.new_rows = 0
    /\ res.updated_rows = 0
    /\ res.skipped_rows = Len(batch)
    /\ res.change_records = <<>>
    /\ sched = pre

C3_AtomicBatch ==
    (calls >= 1 /\ res.err # "") => sched = pre

C3_Witness ==
    /\ res.err = "datatype mismatch"
    /\ Len(res.log) >= 1
    /\ res.tbl # sched
    /\ \E i \in 1..Len(res.log) : res.log[i].op = "UPDATE"
    /\ sched = pre

DiffSet(before, r) == {c \in AttrCols : Canonical(before[c]) # Canonical(r[c])}

SeqSet(s) == {s[i] : i \in 1..Len(s)}

\* C4: in diff mode, for a record whose key exists, the UPDATE sets exactly
\* the columns whose canonical value differs and leaves the others as they
\* were; one change entry per differing column carries the literal old and
\* new values; when nothing differs there is no write, no entry, and the
\* record is counted in skipped_rows.
C4_DiffMinimality ==
    (calls >= 1 /\ mode = "diff") =>
        /\ \A i \in 1..Len(res.log) :
            LET e == res.log[i]
                r == batch[i]
                D == DiffSet(e.before, r)
            IN  e.op # "INSERT" =>
                  /\ (D = {}) <=> (e.op = "SKIP")
                  /\ SeqSet(e.cols) = D
                  /\ Len(e.cols) = Cardinality(D)
                  /\ \A c \in AttrCols \ D : e.after[c] = e.before[c]
                  /\ \A c \in D : e.after[c] = StoreAs(ColType(c), r[c])
                  /\ Len(e.entries) = Cardinality(D)
                  /\ \A c \in D : \E n \in 1..Len(e.entries) :
                        e.entries[n] = [comnumber1 |-> r.comnumber1, column |-> c,
                                        old |-> e.before[c], new |-> r[c]]
        /\ res.skipped_rows = Cardinality({i \in 1..Len(res.log) : res.log[i].op = "SKIP"})
        /\ res.updated_rows = Cardinality({i \in 1..Len(res.log) : res.log[i].op = "UPDATE"})

C4_Witness ==
    /\ mode = "diff"
    /\ res.err = ""
    /\ Len(res.log) = 2
    /\ res.log[1].op = "UPDATE"
    /\ Len(res.log[1].cols) = 1
    /\ res.log[1].before.stdhrs = res.log[1].after.stdhrs
    /\ res.log[1].before.jobname # res.log[1].after.jobname
    /\ res.log[2].op = "SKIP"

SameKeyBefore(i) == {j \in 1..(i - 1) : RowIdOf(batch[j]) = RowIdOf(batch[i])}

SetMax(S) == CHOOSE m \in S : \A x \in S : x <= m

Absent(i) ==
    /\ RowIdOf(batch[i]) \notin DOMAIN pre
    /\ \A j \in 1..(i - 1) : RowIdOf(batch[j]) # RowIdOf(batch[i])

RECURSIVE EntriesOf(_)
EntriesOf(log) == IF log = <<>> THEN <<>> ELSE Head(log).entries \o EntriesOf(Tail(log))

\* C18: a record is inserted exactly when its key is absent at the moment
\* it is processed; the insert stores the full row, adds 1 to new_rows and
\* yields the one change entry {column '*NEW*', old None, new 'INSERTED'}
\* and no per-column entry.
C18_NewRowMarking ==
    calls >= 1 =>
        /\ \A i \in 1..Len(res.log) :
              /\ Absent(i) <=> res.log[i].op = "INSERT"
              /\ Absent(i) =>
                    /\ res.log[i].entries =
                          <<[comnumber1 |-> batch[i].comnumber1, column |-> "*NEW*",
                             old |-> PyNone, new |-> Inserted]>>
                    /\ res.log[i].cols = Columns
                    /\ res.log[i].after =
                          [c \in AttrCols |-> StoreAs(ColType(c), batch[i][c])]
                    /\ res.err = "" => /\ RowIdOf(batch[i]) \in DOMAIN sched
                                       /\ RowIdOf(batch[i]) \notin DOMAIN pre
              /\ ~Absent(i) =>
                    \A n \in 1..Len(res.log[i].entries) : res.log[i].entries[n].column # "*NEW*"
        /\ res.new_rows = Cardinality({i \in 1..Len(res.log) : Absent(i)})
        /\ res.change_records = EntriesOf(res.log)

C18_Witness ==
    /\ calls >= 1
    /\ res.err = ""
    /\ Len(batch) = 2
    /\ Absent(1)
    /\ ~Absent(2)
    /\ res.new_rows = 1
    /\ res.updated_rows = 1
    /\ Len(res.change_records) = 2
    /\ res.change_records[1].column = "*NEW*"

SameCounters(d, b) ==
    /\ d.err = b.err
    /\ d.new_rows = b.new_rows
    /\ d.updated_rows = b.updated_rows
    /\ d.skipped_rows = b.skipped_rows
    /\ d.changed_columns = b.changed_columns

SameEntries(d, b) == d.change_records = b.change_records

\* the same entries but for the literal old value, which is canonically equal
AlikeEntries(d, b) ==
    /\ Len(d.change_records) = Len(b.change_records)
    /\ \A n \in 1..Len(d.change_records) :
          /\ d.change_records[n].comnumber1 = b.change_records[n].comnumber1
          /\ d.change_records[n].column = b.change_records[n].column
          /\ d.change_records[n].new = b.change_records[n].new
          /\ Canonical(d.change_records[n].old) = Canonical(b.change_records[n].old)

\* in bulk mode every record whose key exists is an UPDATE of every column;
\* it counts as updated when it has change entries and as skipped otherwise
BulkWrites ==
    mode = "bulk" =>
        /\ \A i \in 1..Len(res.log) :
              res.log[i].op # "INSERT" =>
                  /\ res.log[i].op = "UPDATE"
                  /\ res.log[i].cols = UpdateCols
                  /\ \A c \in AttrCols : res.log[i].after[c] = StoreAs(ColType(c), batch[i][c])
        /\ res.updated_rows = Cardinality({i \in 1..Len(res.log) :
                                  res.log[i].op = "UPDATE" /\ res.log[i].entries # <<>>})
        /\ res.skipped_rows = Cardinality({i \in 1..Len(res.log) :
                                  res.log[i].op = "UPDATE" /\ res.log[i].entries = <<>>})

WinKeys(b) == {KeyOf(b[i].comnumber1).k : i \in 1..Len(b)}

\* the last record with key k of the last window that has one
LastOfWindow(b, k) == b[SetMax({i \in 1..Len(b) : KeyOf(b[i].comnumber1).k = k})]

LastCarried(k) == LastOfWindow(bf.wins[SetMax({j \in 1..Len(bf.wins) : k \in WinKeys(bf.wins[j])})], k)

Supersedes(k, r) ==
    /\ k \in DOMAIN sched
    /\ \A c \in {"jobname", "stdhrs"} : Canonical(sched[k][c]) = Canonical(r[c])

\* C6 as stated: once the backfill has completed all its windows, every
\* key that a window carried is stored with, for each attribute, a value
\* canonically equal to the one of the last window that carried the key.
C6_Supersession ==
    (bf.pc = "done" /\ bf.ok /\ bf.chunks = bf.n) =>
        \A j \in 1..Len(bf.wins) : \A k \in WinKeys(bf.wins[j]) : Supersedes(k, LastCarried(k))

\* C7 as stated: when the fetch, clean or reconcile step of window k has
\* failed, the backfill has returned ok=false with chunks_completed = k-1
\* and no step of a later window was attempted.
C7_BackfillFailFast ==
    \A j \in 1..Len(bf.steps) :
        ~bf.steps[j].ok =>
            /\ bf.pc = "done"
            /\ ~bf.ok
            /\ bf.chunks_completed = bf.steps[j].k - 1
            /\ \A i \in 1..Len(bf.steps) : bf.steps[i].k <= bf.steps[j].k

\* C8 as stated: once update_scheduling_summary or labor_backfill has
\* returned or raised, every RunLog row is finalized exactly once, and the
\* row of a run that failed carries success = false.
C8_RunRecordsFinalized ==
    /\ \A i \in 1..Len(runLog) : runLog[i].completed /\ runLog[i].writes = 1
    /\ (ret.run_id > 0 /\ ret.status # "ok") => ~runLog[ret.run_id].success

\* C9 as stated: every call of the reconciliation engine made by a driver
\* has a RunLog row, and every change entry the call returned is a
\* ChangeLog row with that run id.
C9_AuditTrail ==
    \A i \in 1..Len(invocations) :
        /\ invocations[i].run_id \in 1..Len(runLog)
        /\ \A c \in 1..Len(invocations[i].changes) :
              \E j \in 1..Len(changeLog) :
                  changeLog[j] = [run_id |-> invocations[i].run_id,
                                  entry |-> invocations[i].changes[c]]

(***************************************************************************)
(* Properties of overlapping ingests (SpecOverlap).                        *)
(***************************************************************************)
RECURSIVE SumRets(_)
SumRets(h) == IF h = <<>> THEN 0 ELSE Head(h).ret + SumRets(Tail(h))

RecordsOf(h) == UNION {{f[i] : i \in 1..Len(f)} : f \in FilesOf(h)}

\* C11 as stated: after any ingests of two files, in any order, the store
\* holds each distinct record of the files exactly once and nothing else,
\* and the returned insert counts sum to the number of rows added.
C11_OverlapUnion ==
    /\ \A r \in RecordsOf(lhist) : Cardinality(RowsEqual(labor, StoredForm(r))) = 1
    /\ Len(labor) = Cardinality({StoredForm(r) : r \in RecordsOf(lhist)})
    /\ SumRets(lhist) = Len(labor)

(***************************************************************************)
(* Properties of malformed lines (SpecLines).                              *)
(***************************************************************************)
WellFormed(ln) == ln.fits /\ ln.LoggedDate \in DOMAIN IsoDate

\* C12 as stated: after the ingest of a file the rows stored are those of
\* its well-formed lines only - a line with an unparsable date or a wrong
\* field count leaves no row - every well-formed line has its row, and the
\* returned count is the number of rows added.
C12_MalformedSkipped ==
    lhist # <<>> =>
        /\ \A i \in 1..Len(labor) :
              \E j \in 1..Len(lfile) : WellFormed(lfile[j]) /\ labor[i] = StoredForm(lfile[j])
        /\ \A j \in 1..Len(lfile) :
              WellFormed(lfile[j]) => RowsEqual(labor, StoredForm(lfile[j])) # {}
        /\ lret = Len(labor)

(***************************************************************************)
(* Properties of the labor loaders (SpecAppend).                           *)
(***************************************************************************)
\* C13 as stated: no run of labor_backfill or of a reimport function
\* deletes or changes a row of SCHLabor: every row is kept as it is and
\* rows are only added.
C13_AppendOnly ==
    [][/\ Len(labor') >= Len(labor)
       /\ \A i \in 1..Len(labor) : labor'[i] = labor[i]]_vars

(***************************************************************************)
(* Properties of restarted backfills (SpecRestart).                        *)
(***************************************************************************)
NoDuplicateRow(tbl) == \A i, j \in 1..Len(tbl) : i # j => tbl[i] # tbl[j]

\* one run over the source from the empty table, never stopped
Uninterrupted(fs) == DayLoop(DayStart(<<>>), 1, fs, 0, allow, TRUE).tbl

StoppedAfterUnit(h) == h.stopped /\ \E i \in 1..Len(h.log) : h.log[i].ev = "import"

\* C14 as stated, for labor_backfill: a run that was cancelled after some
\* days were applied and is re-run to its end over the same files leaves
\* the rows of one uninterrupted run, none of them twice.
C14_Restartable ==
    (lb.runs = 2 /\ StoppedAfterUnit(lb.hist[1]) /\ ~lb.hist[2].stopped) =>
        /\ labor = Uninterrupted(lb.src)
        /\ NoDuplicateRow(labor)

(***************************************************************************)
(* Properties of cancellation (SpecCancel).                                *)
(***************************************************************************)
IsRead(e) == e.ev \in {"read-set", "read-clear"}

MidUnit == {"fetch", "clean", "upsert", "import"}

\* the days the driver imported, as one pass of the day loop
DaysRun(d) ==
    DayLoop(DayStart(<<>>), d.first, d.src,
            IF "stopped" \in d.result.keys THEN d.first + d.index ELSE 0, idxRow, idxFull).tbl

\* C15: the stop event is read only at the loop head, before a window or a
\* day begins; a unit that has started ends as completed or failed, whenever
\* the event is set, and a day's file is imported whole; after a read found
\* the event set no unit is started.
C15_StopAtUnitBoundaries ==
    /\ \A i \in 1..Len(drv.log) :
          IsRead(drv.log[i]) => (i = 1 \/ drv.log[i - 1].ev = "unit-end")
    /\ \A i \in 1..Len(drv.log) :
          drv.log[i].ev = "unit-start" =>
              /\ i > 1 /\ drv.log[i - 1].ev = "read-clear"
              /\ (i = Len(drv.log)) => drv.pc \in MidUnit
              /\ (i < Len(drv.log)) =>
                    /\ drv.log[i + 1].ev \in {"unit-end", "unit-fail"}
                    /\ drv.log[i + 1].index = drv.log[i].index
    /\ \A i \in 1..Len(drv.sets) :
          (drv.sets[i].pc \in MidUnit /\ drv.pc \in {"returned", "raised"}) =>
              \E j \in 1..Len(drv.log) :
                  /\ drv.log[j].ev \in {"unit-end", "unit-fail"}
                  /\ drv.log[j].index = drv.sets[i].index
    /\ \A i, j \in 1..Len(drv.log) :
          (i < j /\ drv.log[i].ev = "read-set") => drv.log[j].ev # "unit-start"
    /\ (drv.fn = "labor" /\ drv.pc = "returned" /\ drv.result.ok) => labor = DaysRun(drv)

\* the event was set while a unit ran; the unit completed and the next
\* read stopped the driver
C15_Witness ==
    /\ drv.pc = "returned"
    /\ Len(drv.sets) = 1
    /\ drv.sets[1].pc \in MidUnit
    /\ drv.sets[1].index < drv.n
    /\ \E j \in 1..Len(drv.log) :
          /\ drv.log[j].ev = "unit-end"
          /\ drv.log[j].index = drv.sets[1].index
          /\ j < Len(drv.log)
          /\ drv.log[j + 1].ev = "read-set"

TerminalPhases == {"all-done", "stopped", "error"}

\* what a caller reads from the returned dict
ResultKind(r) ==
    IF ~r.ok THEN "error" ELSE IF "stopped" \in r.keys THEN "stopped" ELSE "all-done"

Signalled(d) == {i \in 1..Len(d.events) : d.events[i].phase \in TerminalPhases}

\* C16 as stated, for backfill_sched_summary_overlapping: the event that
\* signals DONE, CANCELLED or FAILED is the last progress event of the run,
\* so exactly one of the three is signalled; the driver has then returned,
\* and the returned result tells which of the three it was.
C16_TerminalStates ==
    drv.fn = "backfill" =>
        /\ \A i \in Signalled(drv) : i = Len(drv.events)
        /\ Signalled(drv) # {} => drv.pc = "returned"
        /\ drv.pc = "returned" =>
              /\ Signalled(drv) # {}
              /\ \A i \in Signalled(drv) :
                    (\A j \in Signalled(drv) : i <= j) =>
                        ResultKind(drv.result) = drv.events[i].phase

(***************************************************************************)
(* Properties of the key constraint (SpecLegacy).                          *)
(***************************************************************************)
RowsOf(rows) == {rows[i] : i \in 1..Len(rows)}

\* C17 as stated, for a table that pre-existed without key constraint:
\* once a reconciler has ensured the table, no key is held by two rows,
\* and of the rows that shared a key which no batch has written since, the
\* one with the lowest rowid is the one that was kept.
C17_KeyUnique ==
    legacy.ensured =>
        /\ ~HasDuplicateKey(legacy.rows)
        /\ \A x \in RowsOf(legacy.seed) :
              x.comnumber1 \notin legacy.written =>
                  (x \in RowsOf(legacy.rows) <=> x \in RowsOf(KeepLowest(legacy.seed)))

(***************************************************************************)
(* Properties of the window plan (SpecPlan).                               *)
(***************************************************************************)
\* timedelta(days=1) added
DayAfter(dt) ==
    IF dt.d < MonthRange(dt.y, dt.m) THEN Date(dt.y, dt.m, dt.d + 1)
    ELSE IF dt.m < 12 THEN Date(dt.y, dt.m + 1, 1)
    ELSE Date(dt.y + 1, 1, 1)

\* C20: for start <= end, after the fallbacks primary < 1 -> 4 and
\* overlap < 0 -> 1 and with stride = max(1, primary - overlap): the first
\* window starts at start; each next window starts in a later month than
\* the one before it and no later than the day after its end; every window
\* has start <= end <= the range's end; there are at most as many windows
\* as the range spans months; and when the loop has ended there is a last
\* window and it ends at end exactly.
C20_WindowCover ==
    (plan.pc # "idle" /\ DateLE(plan.start, plan.end)) =>
        /\ plan.primary_months = (IF plan.given[1] < 1 THEN 4 ELSE plan.given[1])
        /\ plan.overlap_months = (IF plan.given[2] < 0 THEN 1 ELSE plan.given[2])
        /\ plan.stride_months >= 1
        /\ plan.stride_months >= plan.primary_months - plan.overlap_months
        /\ plan.stride_months \in {1, plan.primary_months - plan.overlap_months}
        /\ plan.chunks # <<>> => plan.chunks[1].start = plan.start
        /\ \A i \in 1..Len(plan.chunks) :
              /\ DateLE(plan.chunks[i].start, plan.chunks[i].end)
              /\ DateLE(plan.chunks[i].end, plan.end)
              /\ i > 1 =>
                    /\ DateLE(plan.chunks[i].start, DayAfter(plan.chunks[i - 1].end))
                    /\ (DateNum(plan.chunks[i].start) \div 100)
                          > (DateNum(plan.chunks[i - 1].start) \div 100)
        /\ Len(plan.chunks) <= MonthsSpanned(plan.start, plan.end)
        /\ plan.pc = "done" =>
              /\ plan.chunks # <<>>
              /\ plan.chunks[Len(plan.chunks)].end = plan.end

\* a range walked from the 31st with the stride forced to 1: the day is
\* clamped on the way and the last window is clipped
C20_Witness ==
    /\ plan.pc = "done"
    /\ plan.given[2] >= plan.given[1]
    /\ plan.given[1] >= 2
    /\ plan.start.d = 31
    /\ Len(plan.chunks) >= 3
    /\ \E i \in 1..Len(plan.chunks) : plan.chunks[i].start.d < 31
    /\ plan.chunks[Len(plan.chunks)].end
          # DayBefore(AddMonths(plan.chunks[Len(plan.chunks)].start, plan.primary_months))

\* C21 as stated: for 0 <= overlap < primary (start = 2021-05-14,
\* end = 2021-11-14, primary = 4, overlap = 1 among the ranges), every
\* window after the first starts exactly overlap_months months before the
\* day after the end of the window before it.
C21_ExactOverlap ==
    (plan.pc # "idle" /\ DateLE(plan.start, plan.end)
        /\ 0 <= plan.given[2] /\ plan.given[2] < plan.given[1]) =>
        \A i \in 2..Len(plan.chunks) :
            AddMonths(plan.chunks[i].start, plan.overlap_months)
                = DayAfter(plan.chunks[i - 1].end)

PhasesOfWindow == <<"chunk-start", "download-done", "clean-done", "upsert-done", "chunk-done">>

UpsertsDone(d) == {j \in 1..Len(d.events) : d.events[j].phase = "upsert-done"}

\* C22: backfill_sched_summary_overlapping handles its windows one after the
\* other in increasing order: the progress events never go back to an earlier
\* window; chunk-start of window i+1 is directly preceded by chunk-start,
\* download-done, clean-done, upsert-done and chunk-done of window i, in that
\* order; while window i is fetched, cleaned or reconciled exactly i-1
\* reconcile calls have been made, all of them committed; and the engine is
\* never called more often than windows were started.
C22_WindowOrder ==
    drv.fn = "backfill" =>
        /\ \A j \in 2..Len(drv.events) : drv.events[j - 1].index <= drv.events[j].index
        /\ \A j \in 1..Len(drv.events) :
              (drv.events[j].phase = "chunk-start" /\ drv.events[j].index > 1) =>
                  /\ j > 5
                  /\ \A k \in 1..5 :
                        drv.events[j - 6 + k] =
                            [phase |-> PhasesOfWindow[k], index |-> drv.events[j].index - 1]
        /\ drv.pc \in {"fetch", "clean", "upsert"} =>
              /\ Len(invocations) = drv.index - 1
              /\ Cardinality(UpsertsDone(drv)) = drv.index - 1
        /\ Len(invocations) <= drv.index
        /\ Cardinality(UpsertsDone(drv)) = drv.chunks
        /\ Len(invocations) \in {drv.chunks, drv.chunks + 1}
        /\ Len(invocations) = drv.chunks + 1 => drv.pc = "raised"

\* two windows were reconciled, and both wrote changes
C22_Witness ==
    /\ drv.fn = "backfill"
    /\ drv.pc = "returned"
    /\ drv.chunks = 2
    /\ Len(invocations) = 2
    /\ invocations[1].changes # <<>>
    /\ invocations[2].changes # <<>>

RECURSIVE SumOf(_, _)
SumOf(s, f) == IF s = <<>> THEN 0 ELSE s[1][f] + SumOf(Tail(s), f)

FullyDone(d) == d.fn = "backfill" /\ d.pc = "returned" /\ d.result.ok

\* C23 as stated: when backfill_sched_summary_overlapping completes, its
\* result's total_chunks is the number of windows processed, new_rows the sum
\* over the windows of the rows the engine inserted, updated_rows the sum over
\* the windows of the engine's updated_rows counter, and total_changes the
\* total number of change entries.
C23_CumulativeStats ==
    FullyDone(drv) =>
        /\ drv.result.count = Len(drv.engine)
        /\ drv.result.stats.new_rows = SumOf(drv.engine, "new_rows")
        /\ drv.result.stats.updated_rows = SumOf(drv.engine, "updated_rows")
        /\ drv.result.stats.total_changes = SumOf(drv.engine, "changes")

FailedWindow(d) == \E i \in 1..Len(d.log) : d.log[i].ev = "unit-fail"

\* C24 as stated: when backfill_sched_summary_overlapping fails at a window,
\* it returns a result with ok = false and an error message that carries
\* new_rows, updated_rows and total_changes as accumulated over the windows
\* before the failed one.
C24_PartialStats ==
    (drv.fn = "backfill" /\ FailedWindow(drv)) =>
        /\ drv.pc = "returned"
        /\ ~drv.result.ok
        /\ {"ok", "error", "new_rows", "updated_rows", "total_changes"} \subseteq drv.result.keys
        /\ drv.result.stats = [new_rows |-> drv.total_new, updated_rows |-> drv.total_updates,
                                total_changes |-> drv.total_changes]

\* C25: a call of upsert_sched_rows_with_stats with a batch whose records
\* have no comnumber1 raises (KeyError) instead of skipping the records; no
\* summary row is inserted or updated, committed or pending; and
\* update_scheduling_summary, when it made the call, reports failure, closes
\* its RunLog row with success = false and writes no ChangeLog row.
C25_MissingKeyIsHardError ==
    [][(IsKeyless(batch') /\ (calls' # calls \/ invocations' # invocations)) =>
            /\ res'.err = "KeyError"
            /\ res'.log = <<>>
            /\ res'.change_records = <<>>
            /\ res'.new_rows + res'.updated_rows + res'.skipped_rows = 0
            /\ sched' = sched
            /\ txn' = txn
            /\ invocations' # invocations =>
                  /\ ret'.status = "fail"
                  /\ ret'.run_id = Len(runLog')
                  /\ runLog'[ret'.run_id].completed
                  /\ ~runLog'[ret'.run_id].success
                  /\ changeLog' = changeLog]_vars

\* update_scheduling_summary met a keyless batch while the table held a row
C25_Witness ==
    /\ IsKeyless(batch)
    /\ sched # EmptyTbl
    /\ res.err = "KeyError"
    /\ invocations # <<>>
    /\ ret.status = "fail"
    /\ ~runLog[ret.run_id].success

\* a safe identifier: a letter or underscore, then letters, digits, underscores
SafeIdent(s) ==
    /\ s # <<>>
    /\ s[1] \in Letters \cup {"_"}
    /\ \A i \in 1..Len(s) : s[i] \in Letters \cup Digits \cup {"_"}

HasUnsafeColumn(b) ==
    b # <<>> /\ \E c \in ExtraCols(b) : ~SafeIdent(Spelling(c))

\* C26 as stated: a call of upsert_sched_rows_with_stats whose batch has a
\* column name that is no safe identifier fails in ensure_sched_table; no
\* table is created, no column is added and no row is written.
C26_UnsafeColumnsRejected ==
    [][(HasUnsafeColumn(batch') /\ calls' # calls) =>
            /\ res'.err # ""
            /\ res'.log = <<>>
            /\ schedExists' = schedExists
            /\ xcols' = xcols
            /\ sched' = sched]_vars

\* C27 as stated: _canonical applied to its own result gives that result
\* again, for None, the empty text, texts with letters and numeric texts of
\* either sign, with or without a fraction, down to the seventh decimal.
C27_CanonicalIdempotent ==
    canon.pc = "twice" => canon.twice = canon.once

NewEntries(recs) == {i \in 1..Len(recs) : recs[i].column = "*NEW*"}

\* C28: after a call with a non-empty batch that ran to its end, new_rows +
\* updated_rows + skipped_rows is the number of records; the '*NEW*' entries
\* number new_rows and the other entries changed_columns; no entry names the
\* key column; and the entries are those of the first record, then those of
\* the second, and so on, each carrying its record's key.
C28_CounterAccounting ==
    (calls > 0 /\ batch # <<>> /\ res.err = "") =>
        /\ res.new_rows + res.updated_rows + res.skipped_rows = Len(batch)
        /\ Cardinality(NewEntries(res.change_records)) = res.new_rows
        /\ Len(res.change_records) - Cardinality(NewEntries(res.change_records))
              = res.changed_columns
        /\ \A i \in 1..Len(res.change_records) : res.change_records[i].column # "comnumber1"
        /\ Len(res.log) = Len(batch)
        /\ res.change_records = EntriesOf(res.log)
        /\ \A i \in 1..Len(res.log) : \A n \in 1..Len(res.log[i].entries) :
              res.log[i].entries[n].comnumber1 = batch[i].comnumber1

\* one call inserted a row, changed both columns of another and skipped none
C28_Witness ==
    /\ calls > 0
    /\ Len(batch) = 2
    /\ res.err = ""
    /\ res.new_rows = 1
    /\ res.updated_rows = 1
    /\ res.changed_columns = 2
    /\ Len(res.change_records) = 3

\* C29 as stated: whenever the RunLog row of an update run is unfinalized or
\* closed with success = false, every change the run's reconcile call
\* committed to the summary table has its ChangeLog row, also when the
\* process is killed or _record_changes or _finalize_run fails after the
\* commit.
C29_DataAndAuditTogether ==
    \A i \in 1..Len(invocations) :
        (/\ invocations[i].by = "update"
         /\ invocations[i].run_id \in 1..Len(runLog)
         /\ (~runLog[invocations[i].run_id].completed
                \/ ~runLog[invocations[i].run_id].success)) =>
            \A c \in 1..Len(invocations[i].changes) :
                \E j \in 1..Len(changeLog) :
                    changeLog[j] = [run_id |-> invocations[i].run_id,
                                    entry |-> invocations[i].changes[c]]

\* C30 as stated: the number _import_labor_csv returns is the number of rows
\* the call added to SCHLabor and its caller's commit made durable, also
\* when an INSERT raised after earlier rows of the file were inserted.
C30_IngestCountExact ==
    ingests > 0 => lret = Len(labor) - Len(lpre)
====
